---- MODULE Spec2Model ----
(***************************************************************************)
(* RecruitFlow-AI: the candidate status workflow and the sequential        *)
(* outreach dispatcher (components/ProcessingQueue, src/unnamed/part_003)  *)
(* driven by the App component (src/unnamed/part_002) and mirrored to the  *)
(* persistent store (src/services/dbService.ts).                           *)
(*                                                                         *)
(* React state is modelled as variables.  A handler is one action: React   *)
(* re-renders between two user events, so a handler reads the current      *)
(* state; an async function (executeSend, processCandidateList) keeps the  *)
(* values its closure captured and runs on in `tasks` until its last       *)
(* timer fires, also after the component that started it was unmounted.    *)
(***************************************************************************)
EXTENDS Naturals, Integers, Sequences, FiniteSets, TLC

\* ------------------------------------------------------------------ bounds
MaxRoster  == 2   \* rows of one uploaded file
MaxTasks   == 2   \* async dispatches in flight at once
MaxUploads == 1   \* files uploaded in one run (values Date.now() takes)
MaxHeaders == 3   \* columns of an uploaded file
MaxRequests == 2  \* requests to the store awaiting their answer
MaxReuploads == 2 \* files uploaded in one run of the App without the store
MaxQuestions == 2 \* questions of the message template

\* ------------------------------------------------------- program constants
SingleDelay == 800    \* executeSend: setTimeout(resolve, 800)
BulkDelay   == 1500   \* processCandidateList: setTimeout(resolve, 1500)
MinPhoneLen == 5      \* handleDataLoaded: c.phone.length > 5

VARIABLES
    step,               \* App: AppStep
    candidates,         \* App: the roster, Seq of [id, phone, status]
    now,                \* Date.now() of the latest upload (0: none yet)
    store,              \* rows of the `candidates` table, in the order they
                        \* were inserted
    candidateToConfirm, \* ProcessingQueue: Candidate | null
    isBulkSending,      \* ProcessingQueue
    showBulkConfirm,    \* ProcessingQueue
    selectedIds,        \* ProcessingQueue: Set<string>
    bulkActionType,     \* ProcessingQueue: 'all' | 'selected' | null
    tasks,              \* running executeSend / processCandidateList calls,
                        \* in the order their pending timers were armed
    effects,            \* what the latest step did to the outside: status
                        \* writes, window.open calls, alerts, batch ends
    headers,            \* analyzeCsvHeaders: Object.keys(rawData[0])
    gemini,             \* what the mapping collaborator answers
    mapping,            \* handleDataLoaded: the GeminiMappingResponse
    isOfflineMode,      \* dbService: let isOfflineMode
    requests,           \* dbService: requests sent to the store, not yet answered
    returned,           \* dbService: what the function that returned in the
                        \* latest step gave back, and the store's answer if any
    schemaAbsent,       \* the store has answered "schema absent" and
                        \* retryConnection was not called since
    template,           \* App: the MessageTemplate (intro, questions, outro)
    isRefining,         \* MessageEditor
    refining,           \* MessageEditor: the handleRefine call awaiting
                        \* refineMessageTone, with the intro it passed
    sent,               \* the text of the latest link opened, as its receiver
                        \* reads it, and the name of the candidate it went to
    error,              \* FileUpload: the inline message, or null
    reading,            \* FileUpload: the file its FileReader is reading
    loaded,             \* what the latest step called onDataLoaded with
    saving,             \* App: the handleDataLoaded call awaiting the store,
                        \* with the candidates it mapped
    dbStatus,           \* App: 'connected' | 'offline'
    showSqlModal,       \* App
    isVerifying,        \* App
    isLoadingDB,        \* App
    added               \* the list of the addCandidates call whose upsert made
                        \* the table what it is, if one upsert on the empty
                        \* table did and every getAllCandidates still awaiting
                        \* its answer was called after it

vars == <<step, candidates, now, store, candidateToConfirm, isBulkSending,
          showBulkConfirm, selectedIds, bulkActionType, tasks, effects,
          headers, gemini, mapping, isOfflineMode, requests, returned, schemaAbsent,
          added, template, isRefining, refining, sent, error, reading, loaded,
          saving, dbStatus, showSqlModal, isVerifying, isLoadingDB>>

\* the persistence adapter
dbVars == <<isOfflineMode, requests, returned, schemaAbsent, added>>

\* the column mapping of the uploaded file
csvVars == <<headers, gemini, mapping>>

\* the upload screen
uploadVars == <<error, reading, loaded>>

\* the App's view of the store
appVars == <<saving, dbStatus, showSqlModal, isVerifying, isLoadingDB>>

\* the message template and its editor
screenVars == <<template, isRefining, refining, sent>>

queueVars == <<candidateToConfirm, isBulkSending, showBulkConfirm,
               selectedIds, bulkActionType>>

\* the screens: App and ProcessingQueue
uiVars == <<step, candidates, now, queueVars, tasks, effects>>

null == "null"
NoId == <<0, 0>>

\* candidateToConfirm === null
NoCandidate == [id |-> NoId, phone |-> <<>>]

\* what a closure reads of a Candidate it captured: id and phone (and name),
\* never the status the candidate had when it was captured
Captured(c) == [id |-> c.id, phone |-> c.phone]

Status == {"pending", "sent", "skipped", "sending", "failed"}

\* ----------------------------------------------------------------- phones
Digits == {"0", "1", "2", "3", "4", "5", "6", "7", "8", "9"}

PhoneDigits  == <<"+", "1", "5", "5", "5", "0">>
PhoneSymbols == <<"-", "-", "-", "-", "-", "-">>
PhoneShort   == <<"1", "2">>
Phones == {PhoneDigits, PhoneSymbols, PhoneShort}

IsDigit(ch) == ch \in Digits

\* a normalisation that strips the separators but keeps the leading "+"
formatPhone_KeepPlus(phone) ==
    LET kept(ch) == ch \in Digits \cup {"+"}
    IN  SelectSeq(phone, kept)

\* phone.replace(/\D/g, '')
formatPhone(phone) == SelectSeq(phone, IsDigit)

\* ---------------------------------------------------------------- helpers
RECURSIVE SeqsUpTo(_, _)
SeqsUpTo(S, n) ==
    IF n = 0 THEN {<<>>}
    ELSE LET shorter == SeqsUpTo(S, n - 1)
         IN  shorter \cup {Append(s, x) : s \in {q \in shorter : Len(q) = n - 1}, x \in S}

Remove(s, k) == [j \in 1..(Len(s) - 1) |-> IF j < k THEN s[j] ELSE s[j + 1]]

\* the elements of an array
Range(s) == {s[k] : k \in DOMAIN s}

Ids(cs) == {cs[k].id : k \in DOMAIN cs}

Eff(op, id, st, by, n) == [op |-> op, id |-> id, st |-> st, by |-> by, n |-> n]

Wr(id, st, by) == Eff("status", id, st, by, 0)

\* window.open(url, '_blank') on the link whose phone parameter is cleanPhone;
\* res is what the browser answered
OpenLink(id, cleanPhone, res, by) ==
    [op |-> "open", id |-> id, st |-> res, by |-> by, n |-> 0, phone |-> cleanPhone]

\* the loop of a batch ended: the batch of queue instance `epoch` over `total`
\* targets, with `left` of them never attempted
Done(epoch, total, by, left) == Eff("done", <<epoch, total>>, "", by, left)

\* ------------------------------------------------------------ App (part_002)
\* an update whose test is inverted: it writes every candidate but the named one
handleUpdateStatus_Others(cs, id, st) ==
    [k \in DOMAIN cs |-> IF cs[k].id # id THEN [cs[k] EXCEPT !.status = st] ELSE cs[k]]

\* setCandidates(prev => prev.map(c => c.id === id ? { ...c, status } : c)),
\* and the store's update({ status }).eq('id', id) on its rows
handleUpdateStatus(cs, id, st) ==
    [k \in DOMAIN cs |-> IF cs[k].id = id THEN [cs[k] EXCEPT !.status = st] ELSE cs[k]]

\* the status writes among the effects `es`, applied in order to the rows `cs`
RECURSIVE Apply(_, _)
Apply(cs, es) ==
    IF es = <<>> THEN cs
    ELSE Apply(IF Head(es).op = "status"
                 THEN handleUpdateStatus(cs, Head(es).id, Head(es).st)
                 ELSE cs,
               Tail(es))

\* a step whose outside effects are `es`: every onUpdateStatus call updates
\* the local roster and issues dbService.updateStatus
Emit(es) ==
    /\ candidates' = Apply(candidates, es)
    /\ store' = Apply(store, es)
    /\ effects' = es

\* ------------------------------------------- the `candidates` table
\* a row of the table: the columns of `create table candidates`; created_at
\* is not among the columns addCandidates sends
Stored(row, createdAt) ==
    [id |-> row.id, name |-> row.name, phone |-> row.phone, status |-> row.status,
     original_row |-> row.original_row, created_at |-> createdAt]

\* default timezone('utc'::text, now()): the time of the statement, one value
\* for all the rows it inserts, later than that of the rows already stored
StatementTime(table) ==
    IF table = <<>> THEN 1
    ELSE 1 + (CHOOSE t \in {table[k].created_at : k \in DOMAIN table} :
                 \A k \in DOMAIN table : table[k].created_at <= t)

RECURSIVE upsertAt(_, _, _)
upsertAt(table, rows, createdAt) ==
    IF rows = <<>> THEN table
    ELSE upsertAt(IF Head(rows).id \in Ids(table)
                    THEN [k \in DOMAIN table |->
                             IF table[k].id = Head(rows).id
                               THEN Stored(Head(rows), table[k].created_at)
                               ELSE table[k]]
                    ELSE Append(table, Stored(Head(rows), createdAt)),
                  Tail(rows), createdAt)

\* upsert(rows): a row whose id is stored replaces that row, another is added
upsert(table, rows) == upsertAt(table, rows, StatementTime(table))

\* select('*').order('created_at', { ascending: true }): the rows in an order
\* of ascending created_at; rows of equal created_at come in any order
Selected(table) ==
    {[k \in DOMAIN table |-> table[p[k]]] :
        p \in {q \in [DOMAIN table -> DOMAIN table] :
                  /\ \A a, b \in DOMAIN table : a # b => q[a] # q[b]
                  /\ \A a, b \in DOMAIN table :
                        a < b => table[q[a]].created_at <= table[q[b]].created_at}}

\* addCandidates: const rows = candidates.map(c => ({...}))
toRows(cs) ==
    [k \in DOMAIN cs |->
        [id |-> cs[k].id, name |-> cs[k].name, phone |-> cs[k].phone,
         status |-> cs[k].status, original_row |-> cs[k].originalRow]]

\* ------------------------------------------------------------ App, continued
\* a JSON null in a column of the table, and the object {}
JsonNull == [kind |-> "null"]
EmptyObject == <<>>

\* dbService.getAllCandidates: data.map(row => ...), rows -> Candidate[]
getAllCandidates(rows) ==
    [k \in DOMAIN rows |->
        [id |-> rows[k].id, name |-> rows[k].name, phone |-> rows[k].phone,
         status |-> IF rows[k].status = "" THEN "pending" ELSE rows[k].status,
         originalRow |-> IF rows[k].original_row = JsonNull
                           THEN EmptyObject ELSE rows[k].original_row]]

\* row[mapping.name_column] || 'Candidate' for a row without a name
DefaultName == <<"C", "a", "n", "d", "i", "d", "a", "t", "e">>

\* rawData.map(...).filter(c => c.phone.length > 5), ids c-<Date.now()>-<idx>;
\* a row of the file is given by its phone cell, its one column
RECURSIVE mappedCandidates(_, _, _)
mappedCandidates(rawData, stamp, idx) ==
    IF idx > Len(rawData) THEN <<>>
    ELSE LET c == [id |-> <<stamp, idx>>, name |-> DefaultName, phone |-> rawData[idx],
                   originalRow |-> [Phone |-> rawData[idx]], status |-> "pending"]
         IN  (IF Len(c.phone) > MinPhoneLen THEN <<c>> ELSE <<>>)
                \o mappedCandidates(rawData, stamp, idx + 1)

\* the state a freshly mounted ProcessingQueue starts with
QueueMounted ==
    /\ candidateToConfirm' = NoCandidate
    /\ isBulkSending' = FALSE
    /\ showBulkConfirm' = FALSE
    /\ selectedIds' = {}
    /\ bulkActionType' = null

\* no file analysed yet
NoMapping == [name_column |-> <<>>, phone_column |-> <<>>, reasoning |-> ""]

CsvIdle ==
    /\ headers = <<>>
    /\ gemini = [apiKey |-> TRUE, reply |-> [kind |-> "throws"]]
    /\ mapping = NoMapping

\* nothing returned in this step
NoReturn == [of |-> "", code |-> "", data |-> <<>>, error |-> "", result |-> FALSE]

\* the template the App starts with: DEFAULT_INTRO cut after its greeting,
\* the first of DEFAULT_SCREENING_QUESTIONS, the last word of DEFAULT_OUTRO
DEFAULT_INTRO == <<"H", "i", " ", "{", "{", "n", "a", "m", "e", "}", "}", ",">>
DEFAULT_SCREENING_QUESTIONS == << <<"T", "o", "t", "a", "l", "?">> >>
DEFAULT_OUTRO == <<"T", "h", "a", "n", "k", "s", "!">>

DefaultTemplate ==
    [intro |-> DEFAULT_INTRO, questions |-> DEFAULT_SCREENING_QUESTIONS,
     outro |-> DEFAULT_OUTRO]

\* no link opened yet
NothingSent == [name |-> <<>>, text |-> <<>>]

\* the FileReader reads no file
NoFile == [name |-> <<>>, text |-> <<>>, book |-> [kind |-> "none"]]

\* onDataLoaded was not called in this step
NotLoaded == [called |-> FALSE, data |-> <<>>]

\* no handleRefine call is running
NoCall == [running |-> FALSE, currentMessage |-> <<>>, tone |-> ""]

\* the template and the editor as the App is mounted
ScreensIdle ==
    /\ error = null
    /\ reading = NoFile
    /\ loaded = NotLoaded
    /\ template = DefaultTemplate
    /\ isRefining = FALSE
    /\ refining = NoCall
    /\ sent = NothingSent

\* no handleDataLoaded call is awaiting the store
NotSaving == [at |-> "", mapped |-> <<>>]

\* the App once its mount effect has finished, the store having answered
\* without an error
AppIdle ==
    /\ saving = NotSaving
    /\ dbStatus = "connected"
    /\ showSqlModal = FALSE
    /\ isVerifying = FALSE
    /\ isLoadingDB = FALSE

\* the table is not the result of one addCandidates on the empty table
NoneAdded == [valid |-> FALSE, list |-> <<>>]

\* the adapter as the module is loaded
DbIdle ==
    /\ isOfflineMode = FALSE
    /\ requests = <<>>
    /\ returned = NoReturn
    /\ schemaAbsent = FALSE
    /\ added = NoneAdded

Init ==
    /\ CsvIdle
    /\ DbIdle
    /\ ScreensIdle
    /\ AppIdle
    /\ step = "UPLOAD"
    /\ candidates = <<>>
    /\ now = 0
    /\ store = <<>>
    /\ candidateToConfirm = NoCandidate
    /\ isBulkSending = FALSE
    /\ showBulkConfirm = FALSE
    /\ selectedIds = {}
    /\ bulkActionType = null
    /\ tasks = <<>>
    /\ effects = <<>>

\* the page is (re)opened: every running async function is gone, React state
\* is initial, and the mount effect installs what the store holds
loadCandidates ==
    /\ tasks' = <<>>
    /\ QueueMounted
    /\ \E data \in Selected(store) :
          IF Len(data) > 0
            THEN candidates' = getAllCandidates(data) /\ step' = "QUEUE"
            ELSE candidates' = <<>> /\ step' = "UPLOAD"
    /\ effects' = <<>>
    /\ UNCHANGED <<now, store>>
    /\ UNCHANGED <<csvVars, dbVars, screenVars, uploadVars, appVars>>

handleDataLoaded(rawData) ==
    /\ step = "UPLOAD"
    /\ now < MaxUploads
    /\ now' = now + 1
    /\ LET mapped == mappedCandidates(rawData, now + 1, 1)
       IN  /\ store' = upsert(<<>>, toRows(mapped))   \* clearCandidates, addCandidates
           /\ candidates' = mapped
    /\ step' = "MAPPING"
    /\ effects' = <<>>
    /\ UNCHANGED <<queueVars, tasks>>
    /\ UNCHANGED <<csvVars, dbVars, screenVars, appVars>>

\* the buttons of the MAPPING and EDITOR screens; entering QUEUE mounts the queue
setStep(from, to) ==
    /\ step = from
    /\ step' = to
    /\ effects' = <<>>
    /\ UNCHANGED <<candidates, now, store, queueVars, tasks>>
    /\ UNCHANGED <<csvVars, dbVars, screenVars, uploadVars, appVars>>

handleReset ==
    /\ candidates' = <<>>
    /\ step' = "UPLOAD"
    /\ store' = <<>>                   \* dbService.clearCandidates
    /\ QueueMounted                    \* the queue is unmounted with its state
    /\ effects' = <<>>
    /\ UNCHANGED <<now, tasks>>
    /\ UNCHANGED <<csvVars, dbVars, screenVars, uploadVars, appVars>>

\* ------------------------------------- the App without the store (src/App.tsx)
\* handleDataLoaded of src/App.tsx: ids c-<idx>, no request to the store; `now`
\* counts the uploads, as it does for the queue instances
handleDataLoadedLocal(rawData) ==
    /\ step = "UPLOAD"
    /\ now < MaxReuploads
    /\ now' = now + 1
    /\ candidates' = mappedCandidates(rawData, 0, 1)
    /\ step' = "MAPPING"
    /\ effects' = <<>>
    /\ UNCHANGED <<store, queueVars, tasks>>
    /\ UNCHANGED <<csvVars, dbVars, screenVars, uploadVars, appVars>>

\* ----------------------------------------------- ProcessingQueue (part_003)
pendingCount == Cardinality({k \in DOMAIN candidates : candidates[k].status = "pending"})

\* the confirmation modal is a full-screen overlay above the queue: while it
\* is shown the user reaches only its Cancel and Confirm buttons
ModalOpen == candidateToConfirm # NoCandidate \/ showBulkConfirm

QueueIdle == step = "QUEUE" /\ ~ModalOpen

\* const win = window.open(url, '_blank'); return win !== null  -- after the
\* early `return false` on a phone without digits.  `popup` is the browser's
\* answer; es are the calls made, ok the value returned
openWhatsApp(c, popup, by) ==
    LET cleanPhone == formatPhone(c.phone)
    IN  IF cleanPhone = <<>>
          THEN [es |-> <<>>, ok |-> FALSE]
          ELSE [es |-> <<OpenLink(c.id, cleanPhone, IF popup THEN "ok" ELSE "blocked", by)>>,
                ok |-> popup]

FreeTid == CHOOSE n \in 1..(Len(tasks) + 1) : \A k \in DOMAIN tasks : tasks[k].tid # n

Delay(t) == IF t.kind = "single" THEN SingleDelay ELSE BulkDelay

\* the timer of tasks[k] was armed after those of tasks[1..k-1]: it can fire
\* first only if its delay is the shorter one
CanFire(k) == \A j \in 1..(k - 1) : Delay(tasks[j]) > Delay(tasks[k])

\* the queue instance that started task t is still the mounted one
Mounted(t) == step = "QUEUE" /\ t.epoch = now

Target(t) == t.targets[t.i]

\* executeSend up to its await: onUpdateStatus(candidate.id, 'sending')
executeSend(candidate) ==
    /\ Len(tasks) < MaxTasks
    /\ Emit(<<Wr(candidate.id, "sending", FreeTid)>>)
    /\ tasks' = Append(tasks, [tid |-> FreeTid, kind |-> "single", epoch |-> now,
                               btype |-> null, targets |-> <<candidate>>, i |-> 1,
                               start |-> <<>>])

\* executeSend after its await
executeSendResume(k, popup) ==
    LET t == tasks[k]
        c == Target(t)
        r == openWhatsApp(c, popup, t.tid)
    IN  /\ t.kind = "single"
        /\ Emit(r.es \o
                (IF r.ok THEN <<Wr(c.id, "sent", t.tid)>>
                         ELSE <<Wr(c.id, "failed", t.tid), Eff("alert", c.id, "", t.tid, 0)>>))
        /\ tasks' = Remove(tasks, k)
        /\ UNCHANGED <<step, now, queueVars>>
        /\ UNCHANGED <<csvVars, dbVars, screenVars, uploadVars, appVars>>

handleSkip(k) ==
    /\ QueueIdle
    /\ k \in DOMAIN candidates
    /\ candidates[k].status = "pending"
    /\ ~isBulkSending
    /\ Emit(<<Wr(candidates[k].id, "skipped", 0)>>)
    /\ UNCHANGED <<step, now, queueVars, tasks>>
    /\ UNCHANGED <<csvVars, dbVars, screenVars, uploadVars, appVars>>

\* a Send button that dispatches at once, without the dialog
handleSingleSendClick_NoDialog(k) ==
    /\ QueueIdle
    /\ k \in DOMAIN candidates
    /\ candidates[k].status = "pending"
    /\ ~isBulkSending
    /\ executeSend(Captured(candidates[k]))
    /\ UNCHANGED <<step, now, queueVars>>
    /\ UNCHANGED <<csvVars, dbVars, screenVars, uploadVars, appVars>>

handleSingleSendClick(k) ==
    /\ QueueIdle
    /\ k \in DOMAIN candidates
    /\ candidates[k].status = "pending"
    /\ ~isBulkSending
    /\ candidateToConfirm' = Captured(candidates[k])
    /\ effects' = <<>>
    /\ UNCHANGED <<step, candidates, now, store, isBulkSending, showBulkConfirm,
                   selectedIds, bulkActionType, tasks>>
    /\ UNCHANGED <<csvVars, dbVars, screenVars, uploadVars, appVars>>

handleRetry(k) ==
    /\ QueueIdle
    /\ k \in DOMAIN candidates
    /\ candidates[k].status # "pending"
    /\ ~isBulkSending
    /\ candidateToConfirm' = Captured(candidates[k])
    /\ effects' = <<>>
    /\ UNCHANGED <<step, candidates, now, store, isBulkSending, showBulkConfirm,
                   selectedIds, bulkActionType, tasks>>
    /\ UNCHANGED <<csvVars, dbVars, screenVars, uploadVars, appVars>>

cancelSingleSend ==
    /\ step = "QUEUE"
    /\ candidateToConfirm # NoCandidate
    /\ candidateToConfirm' = NoCandidate
    /\ effects' = <<>>
    /\ UNCHANGED <<step, candidates, now, store, isBulkSending, showBulkConfirm,
                   selectedIds, bulkActionType, tasks>>
    /\ UNCHANGED <<csvVars, dbVars, screenVars, uploadVars, appVars>>

confirmSingleSend ==
    /\ step = "QUEUE"
    /\ candidateToConfirm # NoCandidate
    /\ executeSend(candidateToConfirm)
    /\ candidateToConfirm' = NoCandidate
    /\ UNCHANGED <<step, now, isBulkSending, showBulkConfirm, selectedIds, bulkActionType>>
    /\ UNCHANGED <<csvVars, dbVars, screenVars, uploadVars, appVars>>

handleBulkSendClick ==
    /\ QueueIdle
    /\ ~isBulkSending
    /\ pendingCount # 0
    /\ bulkActionType' = "all"
    /\ showBulkConfirm' = TRUE
    /\ effects' = <<>>
    /\ UNCHANGED <<step, candidates, now, store, candidateToConfirm, isBulkSending,
                   selectedIds, tasks>>
    /\ UNCHANGED <<csvVars, dbVars, screenVars, uploadVars, appVars>>

handleSelectedSendClick ==
    /\ QueueIdle
    /\ selectedIds # {}
    /\ bulkActionType' = "selected"
    /\ showBulkConfirm' = TRUE
    /\ effects' = <<>>
    /\ UNCHANGED <<step, candidates, now, store, candidateToConfirm, isBulkSending,
                   selectedIds, tasks>>
    /\ UNCHANGED <<csvVars, dbVars, screenVars, uploadVars, appVars>>

cancelBulkSend ==
    /\ step = "QUEUE"
    /\ showBulkConfirm
    /\ showBulkConfirm' = FALSE
    /\ effects' = <<>>
    /\ UNCHANGED <<step, candidates, now, store, candidateToConfirm, isBulkSending,
                   selectedIds, bulkActionType, tasks>>
    /\ UNCHANGED <<csvVars, dbVars, screenVars, uploadVars, appVars>>

\* the count the bulk confirmation dialog displays
shownCount == IF bulkActionType = "all" THEN pendingCount ELSE Cardinality(selectedIds)

bulkTargets ==
    LET isPending(c) == c.status = "pending"
        isSelected(c) == c.id \in selectedIds
    IN  IF bulkActionType = "all" THEN SelectSeq(candidates, isPending)
        ELSE IF bulkActionType = "selected" THEN SelectSeq(candidates, isSelected)
        ELSE <<>>

\* history kept for a send-all batch: the candidates that are not its targets,
\* as they were when the batch was confirmed
OthersAtStart ==
    LET notPending(c) == c.status # "pending"
    IN  IF bulkActionType = "all" THEN SelectSeq(candidates, notPending) ELSE <<>>

\* processCandidateList up to its first await (or to its end, without targets)
processCandidateList(candidatesToProcess) ==
    /\ showBulkConfirm' = FALSE
    /\ selectedIds' = IF bulkActionType = "selected" THEN {} ELSE selectedIds
    /\ IF candidatesToProcess = <<>>
         THEN /\ isBulkSending' = FALSE
              /\ bulkActionType' = null
              /\ effects' = <<Done(now, 0, 0, 0)>>
              /\ UNCHANGED <<candidates, store, tasks>>
         ELSE /\ Len(tasks) < MaxTasks
              /\ isBulkSending' = TRUE
              /\ UNCHANGED bulkActionType
              /\ Emit(<<Wr(candidatesToProcess[1].id, "sending", FreeTid)>>)
              /\ tasks' = Append(tasks, [tid |-> FreeTid, kind |-> "bulk", epoch |-> now,
                                         btype |-> bulkActionType,
                                         targets |-> [k \in DOMAIN candidatesToProcess |->
                                                        Captured(candidatesToProcess[k])],
                                         i |-> 1, start |-> OthersAtStart])

confirmBulkSend ==
    /\ step = "QUEUE"
    /\ showBulkConfirm
    /\ processCandidateList(bulkTargets)
    /\ UNCHANGED <<step, now, candidateToConfirm>>
    /\ UNCHANGED <<csvVars, dbVars, screenVars, uploadVars, appVars>>

\* a loop that stops at the first target that fails
processCandidateListResume_AbortOnFailure(k, popup) ==
    LET t == tasks[k]
        c == Target(t)
        r == openWhatsApp(c, popup, t.tid)
        resolved == r.es \o <<Wr(c.id, IF r.ok THEN "sent" ELSE "failed", t.tid)>>
    IN  /\ t.kind = "bulk"
        /\ IF t.i < Len(t.targets) /\ r.ok
             THEN /\ Emit(resolved \o <<Wr(t.targets[t.i + 1].id, "sending", t.tid)>>)
                  /\ tasks' = Append(Remove(tasks, k), [t EXCEPT !.i = t.i + 1])
                  /\ UNCHANGED <<isBulkSending, bulkActionType>>
             ELSE /\ Emit(resolved \o <<Done(t.epoch, Len(t.targets), t.tid, Len(t.targets) - t.i)>>)
                  /\ tasks' = Remove(tasks, k)
                  /\ IF Mounted(t)
                       THEN isBulkSending' = FALSE /\ bulkActionType' = null
                       ELSE UNCHANGED <<isBulkSending, bulkActionType>>
        /\ UNCHANGED <<step, now, candidateToConfirm, showBulkConfirm, selectedIds>>
        /\ UNCHANGED <<csvVars, dbVars, screenVars, uploadVars, appVars>>

\* one turn of the loop of processCandidateList after its await: resolve the
\* current target, then either start the next one or finish the batch
processCandidateListResume(k, popup) ==
    LET t == tasks[k]
        c == Target(t)
        r == openWhatsApp(c, popup, t.tid)
        resolved == r.es \o <<Wr(c.id, IF r.ok THEN "sent" ELSE "failed", t.tid)>>
    IN  /\ t.kind = "bulk"
        /\ IF t.i < Len(t.targets)
             THEN /\ Emit(resolved \o <<Wr(t.targets[t.i + 1].id, "sending", t.tid)>>)
                  /\ tasks' = Append(Remove(tasks, k), [t EXCEPT !.i = t.i + 1])
                  /\ UNCHANGED <<isBulkSending, bulkActionType>>
             ELSE /\ Emit(resolved \o <<Done(t.epoch, Len(t.targets), t.tid, Len(t.targets) - t.i)>>)
                  /\ tasks' = Remove(tasks, k)
                  /\ IF Mounted(t)
                       THEN isBulkSending' = FALSE /\ bulkActionType' = null
                       ELSE UNCHANGED <<isBulkSending, bulkActionType>>
        /\ UNCHANGED <<step, now, candidateToConfirm, showBulkConfirm, selectedIds>>
        /\ UNCHANGED <<csvVars, dbVars, screenVars, uploadVars, appVars>>

TimerFires(k) ==
    /\ k \in DOMAIN tasks
    /\ CanFire(k)
    /\ \E popup \in BOOLEAN :
          \/ executeSendResume(k, popup)
          \/ processCandidateListResume(k, popup)

toggleSelection(id) ==
    /\ QueueIdle
    /\ id \in Ids(candidates)
    /\ selectedIds' = IF id \in selectedIds THEN selectedIds \ {id} ELSE selectedIds \cup {id}
    /\ effects' = <<>>
    /\ UNCHANGED <<step, candidates, now, store, candidateToConfirm, isBulkSending,
                   showBulkConfirm, bulkActionType, tasks>>
    /\ UNCHANGED <<csvVars, dbVars, screenVars, uploadVars, appVars>>

\* the Select All button is rendered only while nothing is selected
toggleSelectAll ==
    /\ QueueIdle
    /\ selectedIds = {}
    /\ selectedIds' = IF Cardinality(selectedIds) = Len(candidates)
                        THEN {} ELSE Ids(candidates)
    /\ effects' = <<>>
    /\ UNCHANGED <<step, candidates, now, store, candidateToConfirm, isBulkSending,
                   showBulkConfirm, bulkActionType, tasks>>
    /\ UNCHANGED <<csvVars, dbVars, screenVars, uploadVars, appVars>>

clearSelection ==
    /\ QueueIdle
    /\ selectedIds # {}
    /\ selectedIds' = {}
    /\ effects' = <<>>
    /\ UNCHANGED <<step, candidates, now, store, candidateToConfirm, isBulkSending,
                   showBulkConfirm, bulkActionType, tasks>>
    /\ UNCHANGED <<csvVars, dbVars, screenVars, uploadVars, appVars>>

\* candidates.forEach(c => { if (wanted(c)) onUpdateStatus(c.id, st) })
forEachUpdate(cs, wanted, st) ==
    LET test(c) == c \in wanted
        hit == SelectSeq(cs, test)
    IN  [k \in DOMAIN hit |-> Wr(hit[k].id, st, 0)]

\* a bulk skip that takes every selected candidate, pending or not
handleBulkSkip_AnyStatus ==
    LET wanted == {c \in Range(candidates) : c.id \in selectedIds}
    IN  /\ QueueIdle
        /\ selectedIds # {}
        /\ Emit(forEachUpdate(candidates, wanted, "skipped"))
        /\ selectedIds' = {}
        /\ UNCHANGED <<step, now, candidateToConfirm, isBulkSending, showBulkConfirm,
                       bulkActionType, tasks>>
        /\ UNCHANGED <<csvVars, dbVars, screenVars, uploadVars, appVars>>

handleBulkSkip ==
    LET wanted == {c \in Range(candidates) : c.id \in selectedIds /\ c.status = "pending"}
    IN  /\ QueueIdle
        /\ selectedIds # {}
        /\ Emit(forEachUpdate(candidates, wanted, "skipped"))
        /\ selectedIds' = {}
        /\ UNCHANGED <<step, now, candidateToConfirm, isBulkSending, showBulkConfirm,
                       bulkActionType, tasks>>
        /\ UNCHANGED <<csvVars, dbVars, screenVars, uploadVars, appVars>>

\* a bulk retry that requeues the whole roster, selected or not
handleBulkRetry_WholeRoster ==
    LET wanted == Range(candidates)
    IN  /\ QueueIdle
        /\ selectedIds # {}
        /\ Emit(forEachUpdate(candidates, wanted, "pending"))
        /\ selectedIds' = {}
        /\ UNCHANGED <<step, now, candidateToConfirm, isBulkSending, showBulkConfirm,
                       bulkActionType, tasks>>
        /\ UNCHANGED <<csvVars, dbVars, screenVars, uploadVars, appVars>>

handleBulkRetry ==
    LET wanted == {c \in Range(candidates) : c.id \in selectedIds}
    IN  /\ QueueIdle
        /\ selectedIds # {}
        /\ Emit(forEachUpdate(candidates, wanted, "pending"))
        /\ selectedIds' = {}
        /\ UNCHANGED <<step, now, candidateToConfirm, isBulkSending, showBulkConfirm,
                       bulkActionType, tasks>>
        /\ UNCHANGED <<csvVars, dbVars, screenVars, uploadVars, appVars>>

\* the Start Over button: disabled={isBulkSending}
onReset ==
    /\ QueueIdle
    /\ ~isBulkSending
    /\ handleReset

\* ------------------------------------------------ dbService (dbService.ts)
\* error.code === 'PGRST205' || error.code === '42P01'
SchemaAbsentCodes == {"PGRST205", "42P01"}

\* what the store answers to a request: success, a schema-absent error, or
\* another error
Codes == {"ok", "other"} \cup SchemaAbsentCodes

Request(op, rows, id, status, caller, args) ==
    [op |-> op, rows |-> rows, id |-> id, status |-> status, caller |-> caller,
     args |-> args]

Return(of, code, data, message, result) ==
    [of |-> of, code |-> code, data |-> data, error |-> message, result |-> result]

\* `return;` before any request was made
ReturnsAtOnce(of) == returned' = Return(of, "", <<>>, "", FALSE)

\* the table after the store has carried out request r
Carried(table, r) ==
    IF r.op = "upsert" THEN upsert(table, r.rows)
    ELSE IF r.op = "update" THEN handleUpdateStatus(table, r.id, r.status)
    ELSE IF r.op = "delete" THEN <<>>
    ELSE table

Send(r) ==
    /\ Len(requests) < MaxRequests
    /\ requests' = Append(requests, r)
    /\ returned' = NoReturn

\* retryConnection up to the await in getAllCandidates
retryConnection ==
    /\ isOfflineMode' = FALSE
    /\ schemaAbsent' = FALSE
    /\ Send(Request("select", <<>>, NoId, "", "retryConnection", <<>>))
    /\ UNCHANGED <<store, added>>
    /\ UNCHANGED <<uiVars, csvVars, screenVars, uploadVars, appVars>>

\* getAllCandidates up to its await
getAllCandidatesAwait ==
    /\ Send(Request("select", <<>>, NoId, "", "getAllCandidates", <<>>))
    /\ UNCHANGED <<store, isOfflineMode, schemaAbsent, added>>
    /\ UNCHANGED <<uiVars, csvVars, screenVars, uploadVars, appVars>>

addCandidates(cs) ==
    /\ IF isOfflineMode \/ Len(cs) = 0
         THEN ReturnsAtOnce("addCandidates") /\ UNCHANGED requests
         ELSE Send(Request("upsert", toRows(cs), NoId, "", "addCandidates", cs))
    /\ UNCHANGED <<store, isOfflineMode, schemaAbsent, added>>
    /\ UNCHANGED <<uiVars, csvVars, screenVars, uploadVars, appVars>>

\* an updateStatus without the test of isOfflineMode
updateStatus_AlwaysSends(id, status) ==
    /\ Send(Request("update", <<>>, id, status, "updateStatus", <<>>))
    /\ UNCHANGED <<store, isOfflineMode, schemaAbsent, added>>
    /\ UNCHANGED <<uiVars, csvVars, screenVars, uploadVars, appVars>>

updateStatus(id, status) ==
    /\ IF isOfflineMode
         THEN ReturnsAtOnce("updateStatus") /\ UNCHANGED requests
         ELSE Send(Request("update", <<>>, id, status, "updateStatus", <<>>))
    /\ UNCHANGED <<store, isOfflineMode, schemaAbsent, added>>
    /\ UNCHANGED <<uiVars, csvVars, screenVars, uploadVars, appVars>>

clearCandidates ==
    /\ IF isOfflineMode
         THEN ReturnsAtOnce("clearCandidates") /\ UNCHANGED requests
         ELSE Send(Request("delete", <<>>, NoId, "", "clearCandidates", <<>>))
    /\ UNCHANGED <<store, isOfflineMode, schemaAbsent, added>>
    /\ UNCHANGED <<uiVars, csvVars, screenVars, uploadVars, appVars>>

\* what getAllCandidates returns on the store's answer, `data` being the rows
\* of the answer
Listed(code, data) ==
    IF code \in SchemaAbsentCodes THEN [data |-> <<>>, error |-> "missing_table"]
    ELSE IF code # "ok" THEN [data |-> <<>>, error |-> "error.message"]
    ELSE [data |-> getAllCandidates(data), error |-> null]

\* the store answers requests[k] with `code`, and the function that awaited
\* the answer runs to its end; what the App does with what it returns is the
\* caller's part of the step
Answered(k, code) ==
    /\ k \in DOMAIN requests
    /\ \E data \in Selected(store) :
        LET r == requests[k]
            list == Listed(code, data)
        IN
        /\ requests' = Remove(requests, k)
        /\ store' = IF code = "ok" THEN Carried(store, r) ELSE store
        /\ added' = IF code # "ok" \/ r.op = "select" THEN added
                     ELSE IF /\ r.op = "upsert" /\ store = <<>>
                             /\ \A j \in DOMAIN requests : requests[j].op # "select"
                            THEN [valid |-> TRUE, list |-> r.args]
                            ELSE NoneAdded
        /\ isOfflineMode' = IF code \in SchemaAbsentCodes THEN TRUE ELSE isOfflineMode
        /\ schemaAbsent' = IF code \in SchemaAbsentCodes THEN TRUE ELSE schemaAbsent
        /\ returned' =
              IF r.op = "select"
                THEN Return(r.caller, code, list.data, list.error, list.error # "missing_table")
                ELSE Return(r.caller, code, <<>>, "", FALSE)

\* an answer no handler of the App awaits
Answer(k, code) ==
    /\ Answered(k, code)
    /\ UNCHANGED <<uiVars, csvVars, screenVars, uploadVars, appVars>>

\* ---------------------------- the App's connection indicator (part_002)
\* loadCandidates after its await of getAllCandidates
loadCandidatesResume(k, code) ==
    /\ k \in DOMAIN requests
    /\ requests[k].caller = "getAllCandidates"
    /\ Answered(k, code)
    /\ dbStatus' = IF returned'.error = "missing_table" THEN "offline" ELSE dbStatus
    /\ IF returned'.error # "missing_table" /\ Len(returned'.data) > 0
         THEN candidates' = returned'.data /\ step' = "QUEUE"
         ELSE UNCHANGED <<candidates, step>>
    /\ isLoadingDB' = FALSE
    /\ effects' = <<>>
    /\ UNCHANGED <<now, queueVars, tasks, saving, showSqlModal, isVerifying>>
    /\ UNCHANGED <<csvVars, screenVars, uploadVars>>

\* the status pill and the banner of the upload screen, both of which open
\* the modal only while dbStatus is offline
openSqlModal ==
    /\ ~isLoadingDB
    /\ dbStatus = "offline"
    /\ ~showSqlModal
    /\ showSqlModal' = TRUE
    /\ UNCHANGED <<saving, dbStatus, isVerifying, isLoadingDB>>
    /\ UNCHANGED <<uiVars, store, csvVars, dbVars, screenVars, uploadVars>>

\* the modal's close buttons
closeSqlModal ==
    /\ showSqlModal
    /\ showSqlModal' = FALSE
    /\ UNCHANGED <<saving, dbStatus, isVerifying, isLoadingDB>>
    /\ UNCHANGED <<uiVars, store, csvVars, dbVars, screenVars, uploadVars>>

\* handleVerifyConnection up to its await: retryConnection up to the await in
\* getAllCandidates; the button is disabled while isVerifying
handleVerifyConnection ==
    /\ showSqlModal
    /\ ~isVerifying
    /\ isVerifying' = TRUE
    /\ isOfflineMode' = FALSE
    /\ schemaAbsent' = FALSE
    /\ Send(Request("select", <<>>, NoId, "", "retryConnection", <<>>))
    /\ UNCHANGED <<store, added>>
    /\ UNCHANGED <<saving, dbStatus, showSqlModal, isLoadingDB>>
    /\ UNCHANGED <<uiVars, csvVars, screenVars, uploadVars>>

\* handleVerifyConnection after its await
handleVerifyConnectionResume(k, code) ==
    /\ k \in DOMAIN requests
    /\ requests[k].caller = "retryConnection"
    /\ Answered(k, code)
    /\ IF returned'.result
         THEN dbStatus' = "connected" /\ showSqlModal' = FALSE
         ELSE UNCHANGED <<dbStatus, showSqlModal>>       \* alert(...)
    /\ isVerifying' = FALSE
    /\ UNCHANGED <<saving, isLoadingDB>>
    /\ UNCHANGED <<uiVars, csvVars, screenVars, uploadVars>>

\* ------------------- the App on a store that answers later (part_002, part_003)
\* the updateStatus requests of the status writes among the effects `es`
RECURSIVE Updates(_)
Updates(es) ==
    IF es = <<>> THEN <<>>
    ELSE (IF Head(es).op = "status"
            THEN <<Request("update", <<>>, Head(es).id, Head(es).st,
                           "handleUpdateStatus", <<>>)>>
            ELSE <<>>) \o Updates(Tail(es))

\* a step whose outside effects are `es`: every onUpdateStatus call updates
\* the local roster, and dbService.updateStatus sends its request, which
\* nothing awaits
EmitRemote(es) ==
    /\ candidates' = Apply(candidates, es)
    /\ effects' = es
    /\ requests' = IF isOfflineMode THEN requests ELSE requests \o Updates(es)
    /\ Len(requests') <= MaxRequests
    /\ returned' = NoReturn
    /\ UNCHANGED <<store, isOfflineMode, schemaAbsent, added>>

executeSendRemote(candidate) ==
    /\ Len(tasks) < MaxTasks
    /\ EmitRemote(<<Wr(candidate.id, "sending", FreeTid)>>)
    /\ tasks' = Append(tasks, [tid |-> FreeTid, kind |-> "single", epoch |-> now,
                               btype |-> null, targets |-> <<candidate>>, i |-> 1,
                               start |-> <<>>])

executeSendResumeRemote(k, popup) ==
    LET t == tasks[k]
        c == Target(t)
        r == openWhatsApp(c, popup, t.tid)
    IN  /\ k \in DOMAIN tasks
        /\ t.kind = "single"
        /\ EmitRemote(r.es \o
                (IF r.ok THEN <<Wr(c.id, "sent", t.tid)>>
                         ELSE <<Wr(c.id, "failed", t.tid), Eff("alert", c.id, "", t.tid, 0)>>))
        /\ tasks' = Remove(tasks, k)
        /\ UNCHANGED <<step, now, queueVars>>
        /\ UNCHANGED <<csvVars, screenVars, uploadVars, appVars>>

confirmSingleSendRemote ==
    /\ step = "QUEUE"
    /\ candidateToConfirm # NoCandidate
    /\ executeSendRemote(candidateToConfirm)
    /\ candidateToConfirm' = NoCandidate
    /\ UNCHANGED <<step, now, isBulkSending, showBulkConfirm, selectedIds, bulkActionType>>
    /\ UNCHANGED <<csvVars, screenVars, uploadVars, appVars>>

handleSkipRemote(k) ==
    /\ QueueIdle
    /\ k \in DOMAIN candidates
    /\ candidates[k].status = "pending"
    /\ ~isBulkSending
    /\ EmitRemote(<<Wr(candidates[k].id, "skipped", 0)>>)
    /\ UNCHANGED <<step, now, queueVars, tasks>>
    /\ UNCHANGED <<csvVars, screenVars, uploadVars, appVars>>

\* handleReset up to its await of clearCandidates, which nothing follows
handleResetRemote ==
    /\ candidates' = <<>>
    /\ step' = "UPLOAD"
    /\ QueueMounted
    /\ effects' = <<>>
    /\ requests' = IF isOfflineMode THEN requests
                     ELSE Append(requests, Request("delete", <<>>, NoId, "", "handleReset", <<>>))
    /\ Len(requests') <= MaxRequests
    /\ returned' = NoReturn
    /\ UNCHANGED <<now, tasks, store, isOfflineMode, schemaAbsent, added>>
    /\ UNCHANGED <<csvVars, screenVars, uploadVars, appVars>>

onResetRemote ==
    /\ QueueIdle
    /\ ~isBulkSending
    /\ handleResetRemote

\* handleDataLoaded up to its await of clearCandidates; the upload screen
\* shows the spinner in place of FileUpload while it runs.  Offline, neither
\* clearCandidates nor addCandidates makes a request.
handleDataLoadedRemote(rawData) ==
    /\ step = "UPLOAD"
    /\ saving = NotSaving
    /\ now < MaxReuploads
    /\ now' = now + 1
    /\ effects' = <<>>
    /\ returned' = NoReturn
    /\ IF isOfflineMode
         THEN /\ candidates' = mappedCandidates(rawData, now + 1, 1)
              /\ step' = "MAPPING"
              /\ UNCHANGED <<requests, saving>>
         ELSE /\ Len(requests) < MaxRequests
              /\ requests' = Append(requests, Request("delete", <<>>, NoId, "",
                                                       "handleDataLoaded", <<>>))
              /\ saving' = [at |-> "clearCandidates",
                            mapped |-> mappedCandidates(rawData, now + 1, 1)]
              /\ UNCHANGED <<candidates, step>>
    /\ UNCHANGED <<queueVars, tasks, store, isOfflineMode, schemaAbsent, added>>
    /\ UNCHANGED <<csvVars, screenVars, uploadVars, dbStatus, showSqlModal,
                   isVerifying, isLoadingDB>>

\* the store carries out requests[k] and answers without an error; a
\* handleDataLoaded that awaited the answer goes on: after clearCandidates to
\* its await of addCandidates (which makes no request for an empty list),
\* after addCandidates to its end
Applied(k) ==
    /\ k \in DOMAIN requests
    /\ store' = Carried(store, requests[k])
    /\ effects' = <<>>
    /\ returned' = NoReturn
    /\ IF requests[k].caller # "handleDataLoaded"
         THEN /\ requests' = Remove(requests, k)
              /\ UNCHANGED <<candidates, step, saving>>
         ELSE IF requests[k].op = "delete" /\ saving.mapped # <<>>
         THEN /\ requests' = Append(Remove(requests, k),
                                    Request("upsert", toRows(saving.mapped), NoId, "",
                                            "handleDataLoaded", saving.mapped))
              /\ saving' = [saving EXCEPT !.at = "addCandidates"]
              /\ UNCHANGED <<candidates, step>>
         ELSE /\ requests' = Remove(requests, k)
              /\ candidates' = saving.mapped
              /\ step' = "MAPPING"
              /\ saving' = NotSaving
    /\ UNCHANGED <<now, queueVars, tasks, isOfflineMode, schemaAbsent, added>>
    /\ UNCHANGED <<csvVars, screenVars, uploadVars, dbStatus, showSqlModal,
                   isVerifying, isLoadingDB>>

\* ------------------------------------- analyzeCsvHeaders (dbService.ts:121-185)
\* strings are sequences of characters
UpperCase == <<"A", "B", "C", "D", "E", "F", "G", "H", "I", "J", "K", "L", "M", "N", "O", "P", "Q", "R", "S", "T", "U", "V", "W", "X", "Y", "Z">>
LowerCase == <<"a", "b", "c", "d", "e", "f", "g", "h", "i", "j", "k", "l", "m", "n", "o", "p", "q", "r", "s", "t", "u", "v", "w", "x", "y", "z">>

toLowerCase(str) ==
    [k \in DOMAIN str |->
        IF \E i \in DOMAIN UpperCase : UpperCase[i] = str[k]
          THEN LowerCase[CHOOSE i \in DOMAIN UpperCase : UpperCase[i] = str[k]]
          ELSE str[k]]

\* str.includes(part)
includes(str, part) ==
    \E off \in 0..(Len(str) - Len(part)) :
        \A j \in DOMAIN part : str[off + j] = part[j]

\* the value of a missing property or array element
undefined == <<"undefined">>

\* array[index], index counted from 0
At(array, index) == IF index + 1 \in DOMAIN array THEN array[index + 1] ELSE undefined

\* array.find(h => hit(h)), `hits` being the elements that hit
find(array, hits) ==
    IF \E k \in DOMAIN array : array[k] \in hits
      THEN array[CHOOSE k \in DOMAIN array :
                    /\ array[k] \in hits
                    /\ \A j \in 1..(k - 1) : array[j] \notin hits]
      ELSE undefined

\* a || b on strings
OrElse(a, b) == IF a = undefined \/ a = <<>> THEN b ELSE a

\* the column names of the files, and one the files do not have
FullName == <<"F", "u", "l", "l", " ", "N", "a", "m", "e">>
MobileNo == <<"M", "o", "b", "i", "l", "e", " ", "N", "o">>
PHONE    == <<"P", "H", "O", "N", "E">>
Role     == <<"R", "o", "l", "e">>
Id       == <<"I", "d">>
Unknown  == <<"U", "n", "k", "n", "o", "w", "n">>
HeaderNames == {FullName, MobileNo, PHONE, Role, Id}

\* Object.keys(rawData[0]): distinct column names, at least one
HeaderLists ==
    {hs \in SeqsUpTo(HeaderNames, MaxHeaders) :
        /\ hs # <<>>
        /\ \A a, b \in DOMAIN hs : a # b => hs[a] # hs[b]}

\* generateContent throws, or response.text is nothing, text that is no JSON,
\* or the text of a JSON object
Throws      == [kind |-> "throws"]
EmptyText   == [kind |-> "empty"]
InvalidText == [kind |-> "invalid"]
ObjectText(nameColumn, phoneColumn) ==
    [kind |-> "object", name_column |-> nameColumn, phone_column |-> phoneColumn]

\* what the collaborator can do on a file with these headers: the API key is
\* missing, generateContent throws, or it answers a text; a column the JSON
\* object names is a header, another string, or absent
Columns(hs) == Range(hs) \cup {Unknown, undefined}

Replies(hs) ==
    {[apiKey |-> FALSE, reply |-> Throws], [apiKey |-> TRUE, reply |-> Throws]}
        \cup {[apiKey |-> TRUE, reply |-> t] :
                 t \in {EmptyText, InvalidText}
                          \cup {ObjectText(n, p) : n \in Columns(hs), p \in Columns(hs)}}

\* JSON.parse(response.text || '{}'): throws on text that is no JSON
JsonParse(text) ==
    LET t == IF text = EmptyText THEN ObjectText(undefined, undefined) ELSE text
    IN  IF t.kind = "object"
          THEN [thrown |-> FALSE,
                value |-> [name_column |-> t.name_column, phone_column |-> t.phone_column,
                           reasoning |-> IF text = EmptyText THEN "undefined" ELSE "model"]]
          ELSE [thrown |-> TRUE, value |-> NoMapping]

nameFallback(hs) ==
    OrElse(find(hs, {h \in Range(hs) : includes(toLowerCase(h), <<"n", "a", "m", "e">>)}), At(hs, 0))

phoneFallback(hs) ==
    OrElse(find(hs, {h \in Range(hs) :
                        \/ includes(toLowerCase(h), <<"p", "h", "o", "n", "e">>)
                        \/ includes(toLowerCase(h), <<"m", "o", "b", "i", "l", "e">>)
                        \/ includes(toLowerCase(h), <<"c", "o", "n", "t", "a", "c", "t">>)}),
           At(hs, 1))

\* the catch branch
Fallback(hs) ==
    [name_column |-> nameFallback(hs), phone_column |-> phoneFallback(hs),
     reasoning |-> "Fallback logic due to API error"]

\* try { getClient(); generateContent(...); return JSON.parse(...) } catch {...}
analyzeCsvHeaders(hs, answer) ==
    IF ~answer.apiKey \/ answer.reply = Throws THEN Fallback(hs)
    ELSE IF JsonParse(answer.reply).thrown THEN Fallback(hs)
    ELSE JsonParse(answer.reply).value

\* handleDataLoaded: const mapping = await analyzeCsvHeaders(headers, rawData[0])
analyze ==
    /\ mapping = NoMapping
    /\ mapping' = analyzeCsvHeaders(headers, gemini)
    /\ UNCHANGED <<uiVars, store, headers, gemini, dbVars, screenVars, uploadVars, appVars>>

\* ------------------------- the message (part_002:152-158, part_003:46-62)
\* /{{name}}/
Token == <<"{", "{", "n", "a", "m", "e", "}", "}">>

StartsWith(str, part) ==
    Len(part) <= Len(str) /\ SubSeq(str, 1, Len(part)) = part

Drop(str, n) == SubSeq(str, n + 1, Len(str))

\* str.split(' ')[0]
FirstPart(str) ==
    IF \E k \in DOMAIN str : str[k] = " "
      THEN SubSeq(str, 1, (CHOOSE k \in DOMAIN str :
                              str[k] = " " /\ \A j \in 1..(k - 1) : str[j] # " ") - 1)
      ELSE str

\* array.join(separator)
RECURSIVE join(_, _)
join(array, separator) ==
    IF array = <<>> THEN <<>>
    ELSE IF Len(array) = 1 THEN array[1]
    ELSE array[1] \o separator \o join(Tail(array), separator)

WhiteSpace == {" ", "\n", "\r", "\t"}

RECURSIVE trimStart(_)
trimStart(str) ==
    IF str # <<>> /\ Head(str) \in WhiteSpace THEN trimStart(Tail(str)) ELSE str

RECURSIVE trimEnd(_)
trimEnd(str) ==
    IF str # <<>> /\ str[Len(str)] \in WhiteSpace
      THEN trimEnd(SubSeq(str, 1, Len(str) - 1)) ELSE str

\* str.trim()
trim(str) == trimEnd(trimStart(str))

\* const fullMessage = `\n${intro}\n\n${questions.join('\n')}\n\n${outro}\n`.trim()
fullMessage(t) ==
    trim(<<"\n">> \o t.intro \o <<"\n", "\n">> \o join(t.questions, <<"\n">>)
           \o <<"\n", "\n">> \o t.outro \o <<"\n">>)

\* what String.prototype.replace puts for one match when the replacement is
\* the string `replacement`: $$ stands for $, $& for the matched text
RECURSIVE GetSubstitution(_, _)
GetSubstitution(matched, replacement) ==
    IF replacement = <<>> THEN <<>>
    ELSE IF StartsWith(replacement, <<"$", "$">>)
      THEN <<"$">> \o GetSubstitution(matched, Drop(replacement, 2))
    ELSE IF StartsWith(replacement, <<"$", "&">>)
      THEN matched \o GetSubstitution(matched, Drop(replacement, 2))
    ELSE <<Head(replacement)>> \o GetSubstitution(matched, Tail(replacement))

\* a replace that puts the replacement as it is, letter for letter
RECURSIVE replace_Literal(_, _)
replace_Literal(str, replacement) ==
    IF str = <<>> THEN <<>>
    ELSE IF StartsWith(str, Token)
      THEN replacement \o replace_Literal(Drop(str, Len(Token)), replacement)
    ELSE <<Head(str)>> \o replace_Literal(Tail(str), replacement)

\* str.replace(/{{name}}/g, replacement): the matches from left to right, the
\* text put for a match is not searched again
RECURSIVE replace(_, _)
replace(str, replacement) ==
    IF str = <<>> THEN <<>>
    ELSE IF StartsWith(str, Token)
      THEN GetSubstitution(Token, replacement) \o replace(Drop(str, Len(Token)), replacement)
    ELSE <<Head(str)>> \o replace(Tail(str), replacement)

\* the characters encodeURIComponent leaves as they are, as far as the
\* texts here have them
Unreserved == Range(UpperCase) \cup Range(LowerCase) \cup Digits \cup {"!", "-", "_", "."}

\* encodeURIComponent(str): every other character becomes an escape, written
\* here as "%" followed by the character it stands for
RECURSIVE encodeURIComponent(_)
encodeURIComponent(str) ==
    IF str = <<>> THEN <<>>
    ELSE (IF Head(str) \in Unreserved THEN <<Head(str)>> ELSE <<"%", Head(str)>>)
            \o encodeURIComponent(Tail(str))

\* what the receiver of the link reads of its text parameter: the parameter
\* ends at the first "&" or "#", and its escapes are decoded
RECURSIVE Received(_)
Received(param) ==
    IF param = <<>> \/ Head(param) \in {"&", "#"} THEN <<>>
    ELSE IF Head(param) = "%" THEN <<param[2]>> \o Received(Drop(param, 2))
    ELSE <<Head(param)>> \o Received(Tail(param))

\* openWhatsApp: the text parameter of the url for a candidate of this name
TextParameter(finalMessage, name) ==
    LET namePart == FirstPart(OrElse(name, DefaultName))
        personalizedMessage == replace(finalMessage, namePart)
    IN  encodeURIComponent(personalizedMessage)

\* openWhatsApp(candidate) of the queue the App mounts with finalMessage =
\* fullMessage, on a candidate of this name whose phone has digits
openWhatsAppTo(name) ==
    /\ sent' = [name |-> name, text |-> Received(TextParameter(fullMessage(template), name))]
    /\ UNCHANGED <<template, isRefining, refining>>
    /\ UNCHANGED <<uiVars, store, csvVars, dbVars, uploadVars, appVars>>

\* ---------------------- FileUpload (part_004), parseCSV / parseExcel (part_005)
\* str.endsWith(part)
EndsWith(str, part) ==
    Len(part) <= Len(str) /\ SubSeq(str, Len(str) - Len(part) + 1, Len(str)) = part

isCsv(file) == EndsWith(file.name, <<".", "c", "s", "v">>)

isExcel(file) ==
    \/ EndsWith(file.name, <<".", "x", "l", "s", "x">>)
    \/ EndsWith(file.name, <<".", "x", "l", "s">>)

\* str.split(/\r\n|\n/), `line` being the line read so far
RECURSIVE split(_, _)
split(str, line) ==
    IF str = <<>> THEN <<line>>
    ELSE IF StartsWith(str, <<"\r", "\n">>) THEN <<line>> \o split(Drop(str, 2), <<>>)
    ELSE IF Head(str) = "\n" THEN <<line>> \o split(Tail(str), <<>>)
    ELSE split(Tail(str), Append(line, Head(str)))

\* parseLine: the loop over the characters of `text`, with its curVal and
\* inQuote; the value is what it pushes to result
RECURSIVE parseLineFrom(_, _, _)
parseLineFrom(text, curVal, inQuote) ==
    IF text = <<>> THEN <<curVal>>
    ELSE IF inQuote
      THEN IF Head(text) = "\""
             THEN IF Len(text) >= 2 /\ text[2] = "\""
                    THEN parseLineFrom(Drop(text, 2), Append(curVal, "\""), TRUE)
                    ELSE parseLineFrom(Tail(text), curVal, FALSE)
             ELSE parseLineFrom(Tail(text), Append(curVal, Head(text)), TRUE)
      ELSE IF Head(text) = "\"" THEN parseLineFrom(Tail(text), curVal, TRUE)
      ELSE IF Head(text) = "," THEN <<curVal>> \o parseLineFrom(Tail(text), <<>>, FALSE)
      ELSE parseLineFrom(Tail(text), Append(curVal, Head(text)), FALSE)

parseLine(text) == parseLineFrom(text, <<>>, FALSE)

\* headers.forEach((header, index) => row[header.trim()] = values[index]?.trim() || '')
Row(hs, values) ==
    [h \in {trim(hs[i]) : i \in DOMAIN hs} |->
        LET index == CHOOSE i \in DOMAIN hs :
                        /\ trim(hs[i]) = h
                        /\ \A j \in DOMAIN hs : trim(hs[j]) = h => j <= i
        IN  IF index \in DOMAIN values THEN trim(values[index]) ELSE <<>>]

parseCSV(content) ==
    LET lines == split(trim(content), <<>>)
        notBlank(currentLine) == trim(currentLine) # <<>>
        kept == SelectSeq(Tail(lines), notBlank)
    IN  IF Len(lines) < 2 THEN <<>>
        ELSE [k \in DOMAIN kept |-> Row(parseLine(lines[1]), parseLine(kept[k]))]

\* what read(buffer) makes of the file: it throws, or gives a workbook whose
\* sheets are given by the rows sheet_to_json makes of them
Unreadable == [kind |-> "unreadable"]
Workbook(sheets) == [kind |-> "workbook", sheets |-> sheets]

\* the value of a call: it has thrown, or it has returned rows
Thrown == [thrown |-> TRUE, rows |-> <<>>]
Rows(rows) == [thrown |-> FALSE, rows |-> rows]

parseExcel(book) ==
    IF book = Unreadable THEN Thrown
    ELSE IF Len(book.sheets) = 0 THEN Rows(<<>>)
    ELSE Rows(book.sheets[1])

\* reader.onload: parsed = isCsv ? parseCSV(...) : parseExcel(...)
Parsed(file) == IF isCsv(file) THEN Rows(parseCSV(file.text)) ELSE parseExcel(file.book)

\* the phone cells of the rows, the phone column being the column PHONE:
\* row[mapping.phone_column] || ''
Cells(rows) ==
    [k \in DOMAIN rows |-> IF PHONE \in DOMAIN rows[k] THEN rows[k][PHONE] ELSE <<>>]

ErrUnsupported == "Please upload a valid CSV or Excel file."
ErrEmpty == "The file appears to be empty."
ErrParse == "Failed to parse file. Please check the format."

\* processFile up to reader.readAsText / readAsArrayBuffer; the screen shows
\* FileUpload on the UPLOAD step, and a file is dropped when no other is
\* being read
processFile(file) ==
    /\ step = "UPLOAD"
    /\ reading = NoFile
    /\ loaded' = NotLoaded
    /\ IF ~isCsv(file) /\ ~isExcel(file)
         THEN error' = ErrUnsupported /\ reading' = NoFile
         ELSE error' = null /\ reading' = file
    /\ UNCHANGED <<uiVars, store, csvVars, dbVars, screenVars, appVars>>

\* a reader.onload that hands over whatever was parsed
readerOnload_NoEmptyCheck ==
    /\ reading # NoFile
    /\ reading' = NoFile
    /\ IF Parsed(reading).thrown
         THEN /\ error' = ErrParse
              /\ loaded' = NotLoaded
              /\ UNCHANGED <<uiVars, store, csvVars, dbVars, screenVars, appVars>>
         ELSE /\ error' = error
              /\ loaded' = [called |-> TRUE, data |-> Parsed(reading).rows]
              /\ handleDataLoaded(Cells(Parsed(reading).rows))

\* reader.onload
readerOnload ==
    /\ reading # NoFile
    /\ reading' = NoFile
    /\ IF Parsed(reading).thrown
         THEN /\ error' = ErrParse
              /\ loaded' = NotLoaded
              /\ UNCHANGED <<uiVars, store, csvVars, dbVars, screenVars, appVars>>
         ELSE IF Len(Parsed(reading).rows) = 0
         THEN /\ error' = ErrEmpty
              /\ loaded' = NotLoaded
              /\ UNCHANGED <<uiVars, store, csvVars, dbVars, screenVars, appVars>>
         ELSE /\ error' = error
              /\ loaded' = [called |-> TRUE, data |-> Parsed(reading).rows]
              /\ handleDataLoaded(Cells(Parsed(reading).rows))

\* ------------- MessageEditor (MessageEditor.tsx), refineMessageTone (dbService.ts:187-202)
\* what the tone collaborator does: the API key is missing, generateContent
\* throws, or it answers a text (EmptyText: response.text is nothing)
RewriteText(text) == [kind |-> "text", text |-> text]

\* try { getClient(); ...; return response.text || currentMessage }
\* catch { return currentMessage }
refineMessageTone(currentMessage, answer) ==
    IF ~answer.apiKey \/ answer.reply = Throws THEN currentMessage
    ELSE IF answer.reply = EmptyText THEN currentMessage
    ELSE OrElse(answer.reply.text, currentMessage)

\* newIntro.replace(/"/g, '')
stripQuotes(str) ==
    LET kept(ch) == ch # "\""
    IN  SelectSeq(str, kept)

\* handleRefine up to its await; the two tone buttons are disabled={isRefining}
handleRefine(tone) ==
    /\ ~isRefining
    /\ isRefining' = TRUE
    /\ refining' = [running |-> TRUE, currentMessage |-> template.intro, tone |-> tone]
    /\ UNCHANGED <<template, sent>>
    /\ UNCHANGED <<uiVars, store, csvVars, dbVars, uploadVars, appVars>>

\* handleRefine after its await
handleRefineResume(answer) ==
    /\ refining.running
    /\ template' = [template EXCEPT
                       !.intro = stripQuotes(refineMessageTone(refining.currentMessage, answer))]
    /\ isRefining' = FALSE
    /\ refining' = NoCall
    /\ UNCHANGED sent
    /\ UNCHANGED <<uiVars, store, csvVars, dbVars, uploadVars, appVars>>

\* the intro textarea: onChange, disabled={isRefining}
setIntro(value) ==
    /\ ~isRefining
    /\ template' = [template EXCEPT !.intro = value]
    /\ UNCHANGED <<isRefining, refining, sent>>
    /\ UNCHANGED <<uiVars, store, csvVars, dbVars, uploadVars, appVars>>

\* the outro textarea: onChange
setOutro(value) ==
    /\ template' = [template EXCEPT !.outro = value]
    /\ UNCHANGED <<isRefining, refining, sent>>
    /\ UNCHANGED <<uiVars, store, csvVars, dbVars, uploadVars, appVars>>

updateQuestion(index, val) ==
    /\ index + 1 \in DOMAIN template.questions
    /\ template' = [template EXCEPT !.questions[index + 1] = val]
    /\ UNCHANGED <<isRefining, refining, sent>>
    /\ UNCHANGED <<uiVars, store, csvVars, dbVars, uploadVars, appVars>>

removeQuestion(index) ==
    /\ index + 1 \in DOMAIN template.questions
    /\ template' = [template EXCEPT !.questions = Remove(template.questions, index + 1)]
    /\ UNCHANGED <<isRefining, refining, sent>>
    /\ UNCHANGED <<uiVars, store, csvVars, dbVars, uploadVars, appVars>>

NewQuestion == <<"N", "e", "w", "?">>

\* questions: [...prev.questions, "New Question?"]
addQuestion ==
    /\ Len(template.questions) < MaxQuestions
    /\ template' = [template EXCEPT !.questions = Append(template.questions, NewQuestion)]
    /\ UNCHANGED <<isRefining, refining, sent>>
    /\ UNCHANGED <<uiVars, store, csvVars, dbVars, uploadVars, appVars>>

\* ---------------------------------------------------------- specifications
\* the uploaded files: at least one row, no two rows with the same phone
RawData ==
    {rawData \in SeqsUpTo(Phones, MaxRoster) \ {<<>>} :
        \A a, b \in DOMAIN rawData : a # b => rawData[a] # rawData[b]}

Navigate ==
    \/ setStep("MAPPING", "UPLOAD")
    \/ setStep("MAPPING", "EDITOR")
    \/ setStep("EDITOR", "MAPPING")
    \/ setStep("EDITOR", "QUEUE")

QueueAction ==
    \/ \E k \in 1..MaxRoster : handleSkip(k)
    \/ \E k \in 1..MaxRoster : handleSingleSendClick(k)
    \/ \E k \in 1..MaxRoster : handleRetry(k)
    \/ cancelSingleSend
    \/ confirmSingleSend
    \/ handleBulkSendClick
    \/ handleSelectedSendClick
    \/ cancelBulkSend
    \/ confirmBulkSend
    \/ \E id \in Ids(candidates) : toggleSelection(id)
    \/ toggleSelectAll
    \/ clearSelection
    \/ handleBulkSkip
    \/ handleBulkRetry
    \/ onReset

Timers == \E k \in 1..MaxTasks : TimerFires(k)

\* one page session: the user's actions and the timers
SessionNext ==
    \/ \E rawData \in RawData : handleDataLoaded(rawData) /\ UNCHANGED uploadVars
    \/ Navigate
    \/ QueueAction
    \/ Timers

\* the workflow on rosters of phones: the columns of the file are taken as
\* mapped already, and the store as reachable: it applies every request when
\* it is made and never answers with an error
Next == SessionNext \/ loadCandidates

Spec == Init /\ [][Next]_vars

\* The App of src/App.tsx, which keeps no store: Start Over there is
\* setCandidates([]); setStep(UPLOAD), what handleReset does with the table
\* empty.  Files of one and of two rows.
LocalFiles == {<<PhoneDigits>>, <<PhoneDigits, PhoneSymbols>>}

LocalNext ==
    \/ \E rawData \in LocalFiles : handleDataLoadedLocal(rawData)
    \/ Navigate
    \/ QueueAction
    \/ Timers

LocalSpec == Init /\ [][LocalNext]_vars

\* The queue screen of one session, from the moment it is mounted on the
\* roster of the file LiveFile: a row whose phone has no digit, then a row
\* whose link can open.
LiveFile == <<PhoneSymbols, PhoneDigits>>

QueueInit ==
    /\ CsvIdle
    /\ DbIdle
    /\ ScreensIdle
    /\ AppIdle
    /\ step = "QUEUE"
    /\ candidates = mappedCandidates(LiveFile, 1, 1)
    /\ now = 1
    /\ store = upsert(<<>>, toRows(mappedCandidates(LiveFile, 1, 1)))
    /\ candidateToConfirm = NoCandidate
    /\ isBulkSending = FALSE
    /\ showBulkConfirm = FALSE
    /\ selectedIds = {}
    /\ bulkActionType = null
    /\ tasks = <<>>
    /\ effects = <<>>

QueueNext == QueueAction \/ Timers

\* The browser runs a due timer: the timer armed first, tasks[1], is never
\* postponed forever.  This is WF_vars(TimerFires(1)) written out, with
\* ENABLED <<TimerFires(1)>>_vars spelled as tasks # <<>> (HeadTimerEnabled).
TimerFairness == []<>(tasks = <<>>) \/ []<><<TimerFires(1)>>_vars

FairSpec == QueueInit /\ [][QueueNext]_vars /\ TimerFairness

HeadTimerEnabled == (tasks # <<>>) <=> ENABLED <<TimerFires(1)>>_vars

\* The analysis of one uploaded file: its headers and what the collaborator
\* answers are the inputs.
MapInit ==
    /\ DbIdle
    /\ ScreensIdle
    /\ AppIdle
    /\ headers \in HeaderLists
    /\ gemini \in Replies(headers)
    /\ mapping = NoMapping
    /\ step = "UPLOAD"
    /\ candidates = <<>>
    /\ now = 0
    /\ store = <<>>
    /\ candidateToConfirm = NoCandidate
    /\ isBulkSending = FALSE
    /\ showBulkConfirm = FALSE
    /\ selectedIds = {}
    /\ bulkActionType = null
    /\ tasks = <<>>
    /\ effects = <<>>

MapSpec == MapInit /\ [][analyze]_vars

\* The message of one send: the template the user has left in the editor and
\* the name of the candidate are the inputs.
AnnLee == <<"A", "n", "n", " ", "L", "e", "e">>
Dollars == <<"$", "&">>
\* names as handleDataLoaded stores them (never empty): with and without a
\* space, starting with a space, and with a first part that reads "$&"
Names == {AnnLee, <<"B", "o">>, <<" ", "C", "y">>, Dollars \o <<" ", "C", "o">>}

Intros == {DEFAULT_INTRO, Token \o Token, <<"H", "i", "!">>, <<>>}
QuestionLists == {<<>>, DEFAULT_SCREENING_QUESTIONS,
                  << <<"W", "h", "y", " ">> \o Token \o <<"?">>, <<"N", "o", "t", "i", "c", "e", ":">> >>}
Outros == {DEFAULT_OUTRO, <<"B", "y", "e", " ">> \o Token \o <<" ">>}

Templates == [intro : Intros, questions : QuestionLists, outro : Outros]

MsgInit ==
    /\ CsvIdle
    /\ DbIdle
    /\ template \in Templates
    /\ error = null
    /\ reading = NoFile
    /\ loaded = NotLoaded
    /\ AppIdle
    /\ isRefining = FALSE
    /\ refining = NoCall
    /\ sent = NothingSent
    /\ step = "QUEUE"
    /\ candidates = <<>>
    /\ now = 0
    /\ store = <<>>
    /\ candidateToConfirm = NoCandidate
    /\ isBulkSending = FALSE
    /\ showBulkConfirm = FALSE
    /\ selectedIds = {}
    /\ bulkActionType = null
    /\ tasks = <<>>
    /\ effects = <<>>

MsgNext == \E name \in Names : openWhatsAppTo(name)

MsgSpec == MsgInit /\ [][MsgNext]_vars

\* The App on a store that is reachable and never answers with an error, but
\* answers later and carries the requests out in any order: uploads, single
\* sends, skips and Start Over.
RemoteNext ==
    \/ \E rawData \in LocalFiles : handleDataLoadedRemote(rawData)
    \/ Navigate
    \/ \E k \in 1..MaxRoster : handleSkipRemote(k)
    \/ \E k \in 1..MaxRoster : handleSingleSendClick(k)
    \/ \E k \in 1..MaxRoster : handleRetry(k)
    \/ cancelSingleSend
    \/ confirmSingleSendRemote
    \/ onResetRemote
    \/ \E k \in 1..MaxTasks, popup \in BOOLEAN : executeSendResumeRemote(k, popup)
    \/ \E k \in 1..MaxRequests : Applied(k)

RemoteSpec == Init /\ [][RemoteNext]_vars

\* The upload screen: the files the user drops, the way back to it from the
\* mapping screen, and Start Over.
NL == <<"\n">>
CsvFile(name, text) == [name |-> name, text |-> text, book |-> [kind |-> "none"]]
ExcelFile(name, book) == [name |-> name, text |-> <<>>, book |-> book]

CsvName == <<"a", ".", "c", "s", "v">>
XlsxName == <<"a", ".", "x", "l", "s", "x">>
XlsName == <<"a", ".", "x", "l", "s">>

Files ==
    {CsvFile(<<"a", ".", "t", "x", "t">>, PHONE \o NL \o PhoneDigits),
     CsvFile(<<"a", ".", "C", "S", "V">>, PHONE \o NL \o PhoneDigits),
     CsvFile(CsvName, <<>>),
     CsvFile(CsvName, PHONE \o NL),
     CsvFile(CsvName, <<" ">> \o NL \o PHONE \o <<"\r", "\n", " ">> \o NL),
     CsvFile(CsvName, PHONE \o NL \o PhoneDigits),
     CsvFile(CsvName, PHONE \o <<",", "x">> \o NL \o PhoneSymbols \o <<",", "y">>),
     CsvFile(CsvName, <<"x">> \o NL \o PhoneDigits),
     CsvFile(CsvName, PHONE \o <<"\r", "\n">> \o PhoneSymbols \o NL \o NL
                         \o <<"\"">> \o PhoneDigits \o <<"\"", "\n">>),
     ExcelFile(XlsxName, Unreadable),
     ExcelFile(XlsName, Workbook(<<>>)),
     ExcelFile(XlsxName, Workbook(<< <<>> >>)),
     ExcelFile(XlsxName, Workbook(<< <<>>, <<[h \in {PHONE} |-> PhoneDigits]>> >>)),
     ExcelFile(XlsName, Workbook(<< <<[h \in {PHONE} |-> PhoneSymbols]>> >>)),
     ExcelFile(XlsName, Workbook(<< <<[h \in {PHONE} |-> PhoneSymbols],
                                     [h \in {PHONE} |-> PhoneDigits]>> >>)),
     ExcelFile(XlsxName, Workbook(<< <<[h \in {PHONE} |-> PhoneDigits]>> >>))}

UploadNext ==
    \/ \E file \in Files : processFile(file)
    \/ readerOnload
    \/ Navigate
    \/ onReset

UploadSpec == Init /\ [][UploadNext]_vars

\* The editor screen of one session, from the moment it is mounted on the
\* default template.
Quoted == <<"S", "a", "y", " ", "\"", "h", "i", "\"">>
Hello == <<"H", "e", "l", "l", "o">>

Tones == {"professional", "friendly"}

RefineAnswers ==
    {[apiKey |-> FALSE, reply |-> Throws], [apiKey |-> TRUE, reply |-> Throws],
     [apiKey |-> TRUE, reply |-> EmptyText], [apiKey |-> TRUE, reply |-> RewriteText(<<>>)],
     [apiKey |-> TRUE, reply |-> RewriteText(Hello)],
     [apiKey |-> TRUE, reply |-> RewriteText(<<"\"">> \o Hello \o <<"\"">>)]}

EditorInit ==
    /\ CsvIdle
    /\ DbIdle
    /\ ScreensIdle
    /\ AppIdle
    /\ step = "EDITOR"
    /\ candidates = mappedCandidates(LiveFile, 1, 1)
    /\ now = 1
    /\ store = upsert(<<>>, toRows(mappedCandidates(LiveFile, 1, 1)))
    /\ candidateToConfirm = NoCandidate
    /\ isBulkSending = FALSE
    /\ showBulkConfirm = FALSE
    /\ selectedIds = {}
    /\ bulkActionType = null
    /\ tasks = <<>>
    /\ effects = <<>>

EditorNext ==
    \/ \E tone \in Tones : handleRefine(tone)
    \/ \E answer \in RefineAnswers : handleRefineResume(answer)
    \/ \E value \in {DEFAULT_INTRO, Quoted, <<>>} : setIntro(value)
    \/ \E value \in {DEFAULT_OUTRO, <<>>} : setOutro(value)
    \/ \E index \in 0..(MaxQuestions - 1), val \in {NewQuestion, <<>>} : updateQuestion(index, val)
    \/ \E index \in 0..(MaxQuestions - 1) : removeQuestion(index)
    \/ addQuestion

EditorSpec == EditorInit /\ [][EditorNext]_vars

\* The adapter alone: the application calls its functions at any time, and
\* the store answers each request at some time, in any order, with success or
\* with an error.
\* the roster of a file with a name column: the first row has a name
Named(cs) ==
    [k \in DOMAIN cs |->
        IF k = 1
          THEN [cs[k] EXCEPT !.name = AnnLee,
                             !.originalRow = [Name |-> AnnLee, Phone |-> cs[k].phone]]
          ELSE cs[k]]

DbRosters ==
    {<<>>, mappedCandidates(<<PhoneDigits>>, 1, 1),
     Named(mappedCandidates(<<PhoneDigits, PhoneSymbols>>, 1, 1))}

DbInit ==
    /\ CsvIdle
    /\ DbIdle
    /\ ScreensIdle
    /\ AppIdle
    /\ step = "UPLOAD"
    /\ candidates = <<>>
    /\ now = 0
    /\ store = <<>>
    /\ candidateToConfirm = NoCandidate
    /\ isBulkSending = FALSE
    /\ showBulkConfirm = FALSE
    /\ selectedIds = {}
    /\ bulkActionType = null
    /\ tasks = <<>>
    /\ effects = <<>>

DbCall ==
    \/ retryConnection
    \/ getAllCandidatesAwait
    \/ \E cs \in DbRosters : addCandidates(cs)
    \/ \E id \in {<<1, 1>>, <<1, 2>>}, status \in {"sent", "skipped"} : updateStatus(id, status)
    \/ clearCandidates

DbNext == DbCall \/ \E k \in 1..MaxRequests, code \in Codes : Answer(k, code)

DbSpec == DbInit /\ [][DbNext]_vars

\* The App's connection indicator over the adapter: the page has been opened
\* and loadCandidates awaits the store; what the App's handlers write goes
\* through addCandidates, updateStatus and clearCandidates once the loading
\* screen is gone; the store answers each request with any code.
StatusInit ==
    /\ CsvIdle
    /\ ScreensIdle
    /\ isOfflineMode = FALSE
    /\ requests = <<Request("select", <<>>, NoId, "", "getAllCandidates", <<>>)>>
    /\ returned = NoReturn
    /\ schemaAbsent = FALSE
    /\ added = NoneAdded
    /\ saving = NotSaving
    /\ dbStatus = "connected"
    /\ showSqlModal = FALSE
    /\ isVerifying = FALSE
    /\ isLoadingDB = TRUE
    /\ step = "UPLOAD"
    /\ candidates = <<>>
    /\ now = 0
    /\ store \in {<<>>, upsert(<<>>, toRows(mappedCandidates(<<PhoneDigits>>, 1, 1)))}
    /\ candidateToConfirm = NoCandidate
    /\ isBulkSending = FALSE
    /\ showBulkConfirm = FALSE
    /\ selectedIds = {}
    /\ bulkActionType = null
    /\ tasks = <<>>
    /\ effects = <<>>

StatusNext ==
    \/ \E k \in 1..MaxRequests, code \in Codes : loadCandidatesResume(k, code)
    \/ ~isLoadingDB /\ \E cs \in DbRosters : addCandidates(cs)
    \/ ~isLoadingDB /\ \E status \in {"sent", "skipped"} : updateStatus(<<1, 1>>, status)
    \/ ~isLoadingDB /\ clearCandidates
    \/ \E k \in 1..MaxRequests, code \in Codes :
          k \in DOMAIN requests /\ requests[k].op # "select" /\ Answer(k, code)
    \/ openSqlModal
    \/ closeSqlModal
    \/ handleVerifyConnection
    \/ \E k \in 1..MaxRequests, code \in Codes : handleVerifyConnectionResume(k, code)

StatusSpec == StatusInit /\ [][StatusNext]_vars

\* ------------------------------------------------------------------ claims

\* positions whose candidate is the same one before and after the step
Kept == {k \in DOMAIN candidates :
            k \in DOMAIN candidates' /\ candidates'[k].id = candidates[k].id}

\* the tasks whose pending await is the attempt on candidate `id`
AttemptsOn(ts, id) == {k \in DOMAIN ts : Target(ts[k]).id = id}

\* the dispatches this step started
StartedTasks == {t \in Range(tasks') : \A u \in Range(tasks) : u.tid # t.tid}

TableEdges ==
    {<<"pending", "skipped">>, <<"pending", "sending">>,
     <<"sending", "sent">>, <<"sending", "failed">>,
     <<"sent", "pending">>, <<"failed", "pending">>, <<"skipped", "pending">>}

\* C1: every change of a candidate's status follows an edge of the transition
\* table; in particular sent and failed are entered from sending only.
C1_TableEdgesOnly ==
    [][\A k \in Kept :
          \/ candidates'[k].status = candidates[k].status
          \/ <<candidates[k].status, candidates'[k].status>> \in TableEdges]_vars

\* C2: while a candidate is sending, no further attempt on it starts, no
\* other action changes its status, and its next status is sent or failed,
\* written by an attempt that was waiting on it.
C2_SendingIsExclusive ==
    [][\A k \in Kept :
          candidates[k].status = "sending" =>
             /\ \A t \in StartedTasks : Target(t).id # candidates[k].id
             /\ \/ candidates'[k].status = "sending"
                \/ /\ candidates'[k].status \in {"sent", "failed"}
                   /\ \E j \in DOMAIN effects', a \in AttemptsOn(tasks, candidates[k].id) :
                         /\ effects'[j].op = "status"
                         /\ effects'[j].id = candidates[k].id
                         /\ effects'[j].by = tasks[a].tid]_vars

\* C3: at most one dispatch is in flight, and isBulkSending is true as long
\* as a batch of the mounted queue runs.
C3_OneDispatchAtATime ==
    /\ Len(tasks) <= 1
    /\ \A t \in Range(tasks) : (t.kind = "bulk" /\ Mounted(t)) => isBulkSending

\* C4: no dispatch outlives a reset of its roster; or, if one does, it opens
\* no link and writes no status afterwards.
C4_ResetAbandonsDispatch ==
    \A j \in DOMAIN effects :
        (effects[j].op \in {"open", "status"} /\ effects[j].by # 0)
            => (step = "QUEUE" /\ effects[j].id[1] = now)

StatusOf(cs, id) ==
    IF id \in Ids(cs) THEN cs[CHOOSE k \in DOMAIN cs : cs[k].id = id].status ELSE "removed"

Pos(cs, id) == CHOOSE k \in DOMAIN cs : cs[k].id = id

\* the loop of task t has ended in this step
Finishes(t) ==
    \E j \in DOMAIN effects' : effects'[j].op = "done" /\ effects'[j].by = t.tid

PendingAtConfirm ==
    LET isPending(c) == c.status = "pending"
        hit == SelectSeq(candidates, isPending)
    IN  [k \in DOMAIN hit |-> Captured(hit[k])]

\* C5: a send-all batch takes exactly the candidates pending when it is
\* confirmed, in roster order; when it finishes each of them is sent or failed
\* and every other candidate has the status it had when the batch started.
C5_SendAllTouchesOnlyPending ==
    [][/\ \A t \in StartedTasks : t.btype = "all" => t.targets = PendingAtConfirm
       /\ \A t \in Range(tasks) :
             (t.btype = "all" /\ Finishes(t)) =>
                /\ \A j \in DOMAIN effects' : effects'[j].op = "done" => effects'[j].n = 0
                /\ \A j \in DOMAIN t.targets :
                      StatusOf(candidates', t.targets[j].id) \in {"sent", "failed"}
                /\ \A j \in DOMAIN t.start :
                      StatusOf(candidates', t.start[j].id) = t.start[j].status]_vars

\* C6: a batch takes its targets in roster order, resolves target i to sent or
\* failed before it sets target i+1 to sending, and never has two of its
\* targets in sending at once.
C6_NoPipelining ==
    [][/\ \A t \in StartedTasks :
             \A a, b \in DOMAIN t.targets :
                a < b => Pos(candidates, t.targets[a].id) < Pos(candidates, t.targets[b].id)
       /\ \A t \in Range(tasks) : \A j \in DOMAIN effects' :
             (t.kind = "bulk" /\ effects'[j].op = "status"
                 /\ effects'[j].st = "sending" /\ effects'[j].by = t.tid) =>
                /\ t.i < Len(t.targets)
                /\ effects'[j].id = t.targets[t.i + 1].id
                /\ j > 1
                /\ effects'[j - 1].op = "status"
                /\ effects'[j - 1].id = t.targets[t.i].id
                /\ effects'[j - 1].st \in {"sent", "failed"}
       /\ \A t \in Range(tasks') :
             t.kind = "bulk" =>
                Cardinality({j \in DOMAIN t.targets :
                                StatusOf(candidates', t.targets[j].id) = "sending"}) <= 1]_vars

\* C7: a confirmed batch ends, with every target attempted whatever failed
\* before it, and the queue that ran it then has isBulkSending = false and
\* bulkActionType = null.
BatchEnded(x) ==
    \E j \in DOMAIN effects :
        /\ effects[j].op = "done"
        /\ effects[j].by = x
        /\ effects[j].n = 0
        /\ (step = "QUEUE" /\ effects[j].id[1] = now)
              => (~isBulkSending /\ bulkActionType = null)

BatchRuns(x) == \E t \in Range(tasks) : t.tid = x /\ t.kind = "bulk"

C7_BatchRunsToCompletion == \A x \in 1..MaxTasks : BatchRuns(x) ~> BatchEnded(x)

\* a batch over two targets has just ended with the second one sent, after
\* the first one had failed
C7_Witness ==
    /\ Len(candidates) = 2
    /\ candidates[1].status = "failed"
    /\ candidates[2].status = "sent"
    /\ ~isBulkSending
    /\ \E j \in DOMAIN effects :
          /\ effects[j].op = "done"
          /\ effects[j].by # 0
          /\ effects[j].id[2] = 2
          /\ effects[j].n = 0

\* C8: a candidate in sending always has an attempt waiting on it, the one
\* whose timer will write sent or failed: none stays in sending for good.
C8_SendingHasAttempt ==
    \A k \in DOMAIN candidates :
        candidates[k].status = "sending" => AttemptsOn(tasks, candidates[k].id) # {}

\* C9: clicking Send or Retry only opens the dialog and Cancel only closes it:
\* the roster, the selection, the store and the running dispatches stay as
\* they are and nothing reaches the outside; an executeSend starts only from
\* the open dialog, on the candidate it shows.
C9_ConfirmationGate ==
    [][/\ (\/ \E k \in 1..MaxRoster : handleSingleSendClick(k) \/ handleRetry(k)
           \/ cancelSingleSend)
             => (UNCHANGED <<candidates, selectedIds, store, tasks>> /\ effects' = <<>>)
       /\ \A t \in StartedTasks :
             t.kind = "single" =>
                /\ candidateToConfirm # NoCandidate
                /\ Target(t) = candidateToConfirm
                /\ candidateToConfirm' = NoCandidate]_vars

\* the dialog is open on a failed candidate (Retry was clicked) while another
\* row is selected, and nothing has happened yet
C9_Witness ==
    /\ step = "QUEUE"
    /\ candidateToConfirm # NoCandidate
    /\ StatusOf(candidates, candidateToConfirm.id) = "failed"
    /\ selectedIds # {}
    /\ effects = <<>>

\* C10: a batch starts from one confirmation of the bulk dialog, and the count
\* the dialog shows when it is confirmed is the number of targets the batch
\* takes.
C10_ShownCountIsAttempted ==
    [][/\ confirmBulkSend =>
             /\ \A t \in StartedTasks : Len(t.targets) = shownCount
             /\ StartedTasks = {} => shownCount = 0
       /\ \A t \in StartedTasks :
             t.kind = "bulk" => (showBulkConfirm /\ ~showBulkConfirm')]_vars

\* C11: a denied link-open, in a single send and in every item of a batch
\* alike, is followed by the write of failed for that candidate and by an
\* alert naming it; a batch goes on with its remaining targets (its loop never
\* ends with a target left unattempted).
C11_DeniedOpenFailsWithAlert ==
    \A j \in DOMAIN effects :
        (effects[j].op = "open" /\ effects[j].st = "blocked") =>
            /\ \E a \in DOMAIN effects :
                  /\ a > j
                  /\ effects[a].op = "status"
                  /\ effects[a].id = effects[j].id
                  /\ effects[a].st = "failed"
                  /\ effects[a].by = effects[j].by
            /\ \E a \in DOMAIN effects :
                  /\ effects[a].op = "alert"
                  /\ effects[a].id = effects[j].id
                  /\ effects[a].by = effects[j].by
            /\ \A d \in DOMAIN effects : effects[d].op = "done" => effects[d].n = 0

\* the same without the alert: what holds of a batch item
C11_DeniedOpenFails ==
    \A j \in DOMAIN effects :
        (effects[j].op = "open" /\ effects[j].st = "blocked") =>
            /\ \E a \in DOMAIN effects :
                  /\ a > j
                  /\ effects[a].op = "status"
                  /\ effects[a].id = effects[j].id
                  /\ effects[a].st = "failed"
                  /\ effects[a].by = effects[j].by
            /\ \A d \in DOMAIN effects : effects[d].op = "done" => effects[d].n = 0

\* the digits of a phone string, read left to right
RECURSIVE DigitsOf(_)
DigitsOf(phone) ==
    IF phone = <<>> THEN <<>>
    ELSE (IF Head(phone) \in Digits THEN <<Head(phone)>> ELSE <<>>) \o DigitsOf(Tail(phone))

\* what the dispatch t did in this step (nothing, unless its timer fired)
EffectsOf(t) == {j \in DOMAIN effects' : effects'[j].by = t.tid}

\* C12: the phone parameter of every link opened is the candidate's phone with
\* every non-digit removed; for a phone without a digit window.open is not
\* called, failed is written and the candidate is failed after the attempt.
C12_LinkPhoneIsDigitsOnly ==
    [][\A t \in Range(tasks) :
          LET c == Target(t)
          IN  EffectsOf(t) # {} =>
                 /\ \A j \in EffectsOf(t) :
                       effects'[j].op = "open" =>
                          /\ effects'[j].id = c.id
                          /\ effects'[j].phone = DigitsOf(c.phone)
                          /\ effects'[j].phone # <<>>
                 /\ DigitsOf(c.phone) = <<>> =>
                       /\ \A j \in EffectsOf(t) : effects'[j].op # "open"
                       /\ \E j \in EffectsOf(t) :
                             /\ effects'[j].op = "status"
                             /\ effects'[j].id = c.id
                             /\ effects'[j].st = "failed"
                       /\ StatusOf(candidates', c.id) \in {"failed", "removed"}]_vars

\* a candidate whose phone has no digit is failed, and in this step a link
\* was opened for a phone with separators
C12_Witness ==
    /\ \E k \in DOMAIN candidates :
          candidates[k].phone = PhoneSymbols /\ candidates[k].status = "failed"
    /\ \E j \in DOMAIN effects :
          /\ effects[j].op = "open"
          /\ effects[j].phone = <<"1", "5", "5", "5", "0">>
          /\ \E k \in DOMAIN candidates :
                candidates[k].id = effects[j].id /\ candidates[k].phone = PhoneDigits

\* C13: a roster built from an upload has no candidate whose phone holds
\* fewer than 6 digits, and it has a candidate for every row whose phone holds
\* 6 digits or more.
C13_ShortPhonesExcluded ==
    [][\A rawData \in RawData :
          handleDataLoaded(rawData) =>
             /\ \A k \in DOMAIN candidates' :
                   Len(DigitsOf(candidates'[k].phone)) > MinPhoneLen
             /\ \A idx \in DOMAIN rawData :
                   Len(DigitsOf(rawData[idx])) > MinPhoneLen
                      => <<now', idx>> \in Ids(candidates')]_vars

\* C14: a roster installed by an upload or by the load at startup holds no
\* candidate in sending, and one installed by an upload holds pending
\* candidates only.
C14_NoSendingOnLoad ==
    [][/\ loadCandidates =>
             \A k \in DOMAIN candidates' : candidates'[k].status # "sending"
       /\ \A rawData \in RawData :
             handleDataLoaded(rawData) =>
                \A k \in DOMAIN candidates' : candidates'[k].status = "pending"]_vars

Resolved == {"sent", "failed", "skipped"}

\* C15: Retry on a sent, failed or skipped candidate, from its row or from the
\* selection bar, leaves that candidate pending and prepares no send: no
\* dispatch starts, no link is opened, no confirmation to send is pending.
C15_RetryOnlyRequeues ==
    [][/\ \A k \in 1..MaxRoster :
             (handleRetry(k) /\ candidates[k].status \in Resolved) =>
                /\ candidates'[k].status = "pending"
                /\ candidateToConfirm' = NoCandidate
                /\ StartedTasks = {}
       /\ handleBulkRetry =>
             /\ \A k \in DOMAIN candidates :
                   (candidates[k].id \in selectedIds /\ candidates[k].status \in Resolved)
                      => candidates'[k].status = "pending"
             /\ StartedTasks = {}
             /\ \A j \in DOMAIN effects' : effects'[j].op # "open"]_vars

\* the bulk half alone
C15_BulkRetryOnlyRequeues ==
    [][handleBulkRetry =>
          /\ \A k \in DOMAIN candidates :
                (candidates[k].id \in selectedIds /\ candidates[k].status \in Resolved)
                   => candidates'[k].status = "pending"
          /\ StartedTasks = {}
          /\ \A j \in DOMAIN effects' : effects'[j].op # "open"]_vars

\* the roster after a bulk edit that sets to st the candidates in `hit`
Edited(hit, st) ==
    [k \in DOMAIN candidates |->
        IF k \in hit THEN [candidates[k] EXCEPT !.status = st] ELSE candidates[k]]

\* C16: bulk-skip sets to skipped exactly the selected pending candidates and
\* bulk-retry sets to pending exactly the selected candidates; every other
\* candidate stays as it is and the selection is empty afterwards.
C16_BulkEditFrame ==
    [][/\ handleBulkSkip =>
             /\ candidates' = Edited({k \in DOMAIN candidates :
                                         /\ candidates[k].id \in selectedIds
                                         /\ candidates[k].status = "pending"}, "skipped")
             /\ selectedIds' = {}
       /\ handleBulkRetry =>
             /\ candidates' = Edited({k \in DOMAIN candidates :
                                         candidates[k].id \in selectedIds}, "pending")
             /\ selectedIds' = {}]_vars

\* a bulk skip has just set two selected candidates to skipped
C16_Witness ==
    /\ Len(effects) = 2
    /\ \A j \in DOMAIN effects :
          effects[j].op = "status" /\ effects[j].st = "skipped" /\ effects[j].by = 0
    /\ \A k \in DOMAIN candidates : candidates[k].status = "skipped"
    /\ selectedIds = {}

\* every selected candidate is pending already
SelectionAllPending ==
    /\ selectedIds # {}
    /\ \A k \in DOMAIN candidates :
          candidates[k].id \in selectedIds => candidates[k].status = "pending"

C18_SelectionCleared ==
    [][/\ Ids(candidates') # Ids(candidates) => selectedIds' = {}
       /\ (handleBulkSkip \/ handleBulkRetry) => selectedIds' = {}
       /\ \A t \in Range(tasks) : (t.kind = "bulk" /\ Finishes(t)) => selectedIds' = {}
       /\ selectedIds' \subseteq Ids(candidates')]_vars

\* what holds of it: all but the end of a batch
C18_SelectionClearedByEdits ==
    [][/\ Ids(candidates') # Ids(candidates) => selectedIds' = {}
       /\ (handleBulkSkip \/ handleBulkRetry) => selectedIds' = {}
       /\ \A t \in StartedTasks : t.btype = "selected" => selectedIds' = {}
       /\ selectedIds' \subseteq Ids(candidates')]_vars

\* the collaborator failed: no API key, an exception, no text, text that is
\* no JSON, a JSON object without one of the two columns, or a column that is
\* not a header of the file
CollaboratorFailed ==
    \/ ~gemini.apiKey
    \/ gemini.reply.kind # "object"
    \/ gemini.reply.name_column \notin Range(headers)
    \/ gemini.reply.phone_column \notin Range(headers)

\* C19: when the collaborator failed, analyzeCsvHeaders returns the fallback
\* columns (first header with "name", else the first header; first header
\* with "phone", "mobile" or "contact", else the second header); the columns
\* it returns are headers of the file in any case.
C19_MappingFallback ==
    mapping # NoMapping =>
        /\ CollaboratorFailed =>
              /\ mapping.name_column = nameFallback(headers)
              /\ mapping.phone_column = phoneFallback(headers)
        /\ mapping.name_column \in Range(headers)
        /\ mapping.phone_column \in Range(headers)

\* what holds: the fallback is what is returned when the call throws
C19_FallbackWhenThrown ==
    (mapping # NoMapping
        /\ (~gemini.apiKey \/ gemini.reply \in {Throws, InvalidText}))
      => mapping = Fallback(headers)

\* C20: after the store has answered "schema absent" and until retryConnection
\* is called, addCandidates, updateStatus and clearCandidates send nothing;
\* only retryConnection clears isOfflineMode; retryConnection returns true
\* only if its read was answered without a schema-absent error; and
\* getAllCandidates answered "schema absent" returns an empty list with the
\* error 'missing_table'.
C20_OfflineShortCircuit ==
    [][/\ (/\ schemaAbsent
           /\ \/ \E cs \in DbRosters : addCandidates(cs)
              \/ \E id \in {<<1, 1>>, <<1, 2>>}, status \in {"sent", "skipped"} :
                    updateStatus(id, status)
              \/ clearCandidates)
             => (requests' = requests /\ store' = store)
       /\ (isOfflineMode /\ ~isOfflineMode') => retryConnection
       /\ \A k \in DOMAIN requests, code \in Codes :
             (Answer(k, code) /\ requests[k].op = "select") =>
                /\ (requests[k].caller = "retryConnection" /\ returned'.result)
                      => code \notin SchemaAbsentCodes
                /\ code \in SchemaAbsentCodes
                      => (returned'.data = <<>> /\ returned'.error = "missing_table")]_vars

\* updateStatus has just returned without a request, the store having
\* answered "schema absent" before and holding rows it could have changed
C20_Witness ==
    /\ schemaAbsent
    /\ isOfflineMode
    /\ returned.of = "updateStatus"
    /\ returned.code = ""
    /\ requests = <<>>
    /\ store # <<>>

\* C21: when getAllCandidates lists a table that one addCandidates made from
\* the empty table, it returns the candidates of that call in the same order,
\* each with the same id, name, phone, status and originalRow.
C21_RoundTrip ==
    (returned.of = "getAllCandidates" /\ returned.code = "ok" /\ added.valid)
        => returned.data = added.list

\* the part of C21 that holds: the same candidates, in some order
C21_RoundTripUpToOrder ==
    (returned.of = "getAllCandidates" /\ returned.code = "ok" /\ added.valid)
        => /\ Len(returned.data) = Len(added.list)
           /\ Range(returned.data) = Range(added.list)

C21_Listed ==
    /\ returned.of = "getAllCandidates" /\ returned.code = "ok" /\ added.valid
    /\ Len(returned.data) = 2
\* the steps that replace the roster: an upload, Start Over, the page reopened
ReplacesRoster ==
    \/ \E rawData \in RawData : handleDataLoaded(rawData)
    \/ handleReset
    \/ loadCandidates

SameButStatus(a, b) ==
    /\ a.id = b.id
    /\ a.name = b.name
    /\ a.phone = b.phone
    /\ a.originalRow = b.originalRow

StatusWrites(es) == {j \in DOMAIN es : es[j].op = "status"}

\* C22: a step that does not replace the roster keeps its length, its order
\* and every candidate's id, name, phone and originalRow; a candidate's status
\* changes only to the status of an update made for its id in that step, and
\* updates for ids no candidate has leave the roster as it is.
C22_RosterFrame ==
    [][\/ /\ Len(candidates') = Len(candidates)
          /\ \A k \in DOMAIN candidates : SameButStatus(candidates[k], candidates'[k])
          /\ \A k \in DOMAIN candidates :
                candidates'[k].status # candidates[k].status =>
                   \E j \in StatusWrites(effects') :
                      /\ effects'[j].id = candidates[k].id
                      /\ effects'[j].st = candidates'[k].status
          /\ (\A j \in StatusWrites(effects') : effects'[j].id \notin Ids(candidates))
                => candidates' = candidates
       \/ ReplacesRoster]_vars

\* an update has changed one candidate of a roster of two and left the other
C22_Witness ==
    /\ Len(candidates) = 2
    /\ candidates[1].status # candidates[2].status
    /\ \E j \in StatusWrites(effects) : effects[j].id \in Ids(candidates)

\* an update was made for an id no candidate has
C22_StaleUpdate ==
    \E j \in StatusWrites(effects) : effects[j].id \notin Ids(candidates)
\* C23: no two candidates of a roster share an id, and a status update made by
\* a dispatch that was started on an earlier roster names no candidate of the
\* roster that replaced it.
C23_IdsDieWithTheirRoster ==
    [][/\ \A a, b \in DOMAIN candidates' :
             a # b => candidates'[a].id # candidates'[b].id
       /\ \A j \in StatusWrites(effects'), t \in Range(tasks) :
             (t.tid = effects'[j].by /\ t.epoch # now)
                => effects'[j].id \notin Ids(candidates)]_vars
\* what the claim takes the text for a candidate of this name to be: the
\* trimmed concatenation with every token replaced by the name up to its
\* first space
Personalized(t, name) == replace_Literal(fullMessage(t), FirstPart(name))

HasToken(str) == \E k \in 0..Len(str) : StartsWith(Drop(str, k), Token)

\* C24: the text sent is the trimmed concatenation of intro, a blank line, the
\* questions joined by newlines, a blank line and outro, with every {{name}}
\* replaced by the name up to its first space, and has no {{name}} left.
C24_MessagePersonalized ==
    sent # NothingSent =>
        /\ sent.text = Personalized(template, sent.name)
        /\ ~HasToken(sent.text)
\* the part of C24 that holds: names without "$"
C24_PlainNamesPersonalized ==
    (sent # NothingSent /\ "$" \notin Range(sent.name)) =>
        /\ sent.text = Personalized(template, sent.name)
        /\ ~HasToken(sent.text)
\* the collaborator failed: API key absent, generateContent threw, or the
\* response has no text
RefineFailed(answer) ==
    \/ ~answer.apiKey
    \/ answer.reply \in {Throws, EmptyText}
    \/ answer.reply.text = <<>>

\* C25: when the tone collaborator fails, the intro after handleRefine is the
\* intro handleRefine was called on, character for character, and isRefining
\* is false again.
C25_RefineFailureKeepsIntro ==
    [][\A answer \in RefineAnswers :
          (handleRefineResume(answer) /\ RefineFailed(answer))
             => /\ template'.intro = refining.currentMessage
                /\ ~isRefining']_vars
\* the extension is none of .csv, .xlsx, .xls
Unsupported(file) ==
    LET dot == CHOOSE k \in DOMAIN file.name : file.name[k] = "."
        extension == Drop(file.name, dot)
    IN  extension \notin {<<"c", "s", "v">>, <<"x", "l", "s", "x">>, <<"x", "l", "s">>}

FailsToParse(file) == ~Unsupported(file) /\ file.book = Unreadable

\* a sheet without rows under its header, no sheet at all, or a text without
\* a line that is not blank after its first line that is not blank
NoDataRows(file) ==
    /\ ~Unsupported(file)
    /\ IF file.book.kind = "workbook"
         THEN \A k \in DOMAIN file.book.sheets : k = 1 => file.book.sheets[k] = <<>>
         ELSE /\ file.book.kind = "none"
              /\ LET notBlank(line) == \E k \in DOMAIN line : line[k] \notin WhiteSpace
                      written == SelectSeq(split(file.text, <<>>), notBlank)
                  IN  Len(written) <= 1

\* C26: an upload with an unsupported extension, of a file that fails to
\* parse or of a file without data rows does not call onDataLoaded and changes
\* nothing but the inline message, which it sets; and onDataLoaded is never
\* called with an empty list.
C26_BadFileOnlySetsError ==
    [][/\ \A file \in Files :
             (Unsupported(file) \/ FailsToParse(file) \/ NoDataRows(file)) =>
                /\ processFile(file) =>
                      /\ ~loaded'.called
                      /\ Unsupported(file) => error' = ErrUnsupported
                      /\ UNCHANGED <<uiVars, store, csvVars, dbVars, screenVars, appVars>>
                /\ (reading = file /\ readerOnload) =>
                      /\ ~loaded'.called
                      /\ error' \in {ErrEmpty, ErrParse}
                      /\ UNCHANGED <<uiVars, store, csvVars, dbVars, screenVars, appVars>>
       /\ loaded'.called => Len(loaded'.data) > 0]_vars

\* a file without data rows was dropped on the upload screen while the App
\* had a roster, and its reader has finished
C26_Witness ==
    /\ error = ErrEmpty
    /\ reading = NoFile
    /\ candidates # <<>>
    /\ store # <<>>
\* the candidates of the roster whose status is sending
Sending == {k \in DOMAIN candidates : candidates[k].status = "sending"}

\* C27: at every instant at most one candidate of the roster has status
\* sending.
C27_OneSendingAtATime == Cardinality(Sending) <= 1
\* nothing is in flight: no dispatch awaits its timer, no request its answer,
\* no upload the store
Settled == tasks = <<>> /\ requests = <<>> /\ saving = NotSaving

\* C28: in connected mode, once no dispatch is in flight and every request
\* has been applied, the stored status of each candidate of the roster is its
\* status in the roster.
C28_StoredStatusIsLocalStatus ==
    (~isOfflineMode /\ Settled) =>
        \A k \in DOMAIN candidates : \A j \in DOMAIN store :
            store[j].id = candidates[k].id => store[j].status = candidates[k].status

\* C29: in connected mode, once handleDataLoaded has completed and all requests
\* have settled, the table holds the candidates of the roster and no others.
C29_StoreHoldsTheRoster ==
    (~isOfflineMode /\ Settled /\ candidates # <<>>) =>
        /\ Len(store) = Len(candidates)
        /\ Ids(store) = Ids(candidates)

\* C30: whenever the adapter is in offline mode the App's dbStatus is
\* 'offline', and dbStatus is 'connected' only while the adapter's writes are
\* not short-circuited.
C30_IndicatorFollowsOfflineMode ==
    /\ isOfflineMode => dbStatus = "offline"
    /\ dbStatus = "connected" => ~isOfflineMode
====
